---------------------------- MODULE Spec2Model ----------------------------
(***************************************************************************)
(* Catalogo de juegos y resenias (victoralvarez200505/ProyectoFinalBackEnd) *)
(*                                                                         *)
(* The repository holds two applications over the same two collections     *)
(* ("juegos", "resenias"):                                                 *)
(*   - the reorganised one (src/src/...: routes, validation middleware,    *)
(*     controllers, services, canonical schemas with nombre/calificacion), *)
(*   - the earlier one (servidor.js + funciones/... + models/... with the  *)
(*     legacy schemas titulo/puntuacion).                                  *)
(* A request is one atomic action: validation middleware, handler, store   *)
(* calls and the error boundary.  In the specifications of concurrent      *)
(* requests a handler is one action per await: the requests in progress    *)
(* are kept in enCurso and their steps interleave.                         *)
(*                                                                         *)
(* Encodings.  A string the code inspects character by character (a title, *)
(* a review body) is a sequence of one-character strings; <<>> is the      *)
(* empty or absent string.  Ratings and percentages are fixed-point        *)
(* numbers in tenths (45 is 4.5).  A numeric field that is absent is 0,    *)
(* which every guard of the code that reads it treats like undefined.      *)
(* Document ids are the naturals 1, 2, ... in order of allocation.         *)
(***************************************************************************)
EXTENDS Integers, Sequences, FiniteSets, TLC

VARIABLES
    juegos,      \* collection "juegos": a set of documents
    resenias,    \* collection "resenias": a set of documents
    sigJuego,    \* next _id the store gives to an inserted juego
    sigResenia,  \* next _id the store gives to an inserted resenia
    res,         \* the response to the last request
    resPrevio,   \* the response to the request before it
    reloj,       \* the time new Date() gives
    cupo,        \* how many resenias the store of this run has _ids for
    panel,       \* the call of obtenerDashboard in progress and its queries
    enCurso,     \* the requests in progress: where each handler stands, its locals
    fechas       \* fechaActualizacion of the stored documents, by collection and _id

vars == <<juegos, resenias, sigJuego, sigResenia, res, resPrevio, reloj, fechas,
          cupo, panel, enCurso>>

-----------------------------------------------------------------------------
(* Bounds of the model *)

\* ids the store hands out for juegos in one behaviour
MaxJuegos == 2

\* ids the store hands out for resenias in one behaviour
MaxResenias == 1

-----------------------------------------------------------------------------
(* Strings *)

\* String.prototype.toLowerCase on one character (the "i" flag of RegExp)
Lower(c) == IF c = "A" THEN "a" ELSE IF c = "B" THEN "b" ELSE c

Minusculas(s) == [i \in 1..Len(s) |-> Lower(s[i])]

RECURSIVE TrimIzq(_)
TrimIzq(s) == IF s # <<>> /\ s[1] = " " THEN TrimIzq(Tail(s)) ELSE s

RECURSIVE TrimDer(_)
TrimDer(s) ==
    IF s # <<>> /\ s[Len(s)] = " " THEN TrimDer(SubSeq(s, 1, Len(s) - 1)) ELSE s

\* String.prototype.trim
Trim(s) == TrimDer(TrimIzq(s))

\* a string of n copies of c
Repetir(c, n) == [i \in 1..n |-> c]

-----------------------------------------------------------------------------
(* new RegExp(`^${nombre}$`, 'i') : the title is spliced into the pattern  *)
(* unescaped.  The characters of the model are letters, the blank and the  *)
(* quantifier "+" (one or more of the preceding character).                *)

\* new RegExp throws SyntaxError ("Nothing to repeat") on a "+" with nothing
\* before it or after another quantifier
RegexValida(p) ==
    \A i \in 1..Len(p) : p[i] = "+" => (i > 1 /\ p[i - 1] # "+")

RECURSIVE Coincide(_, _)
\* /^p$/i.test(s)
Coincide(p, s) ==
    IF p = <<>> THEN s = <<>>
    ELSE IF Len(p) >= 2 /\ p[2] = "+"
         THEN \E k \in 1..Len(s) :
                 /\ \A i \in 1..k : Lower(s[i]) = Lower(p[1])
                 /\ Coincide(SubSeq(p, 3, Len(p)), SubSeq(s, k + 1, Len(s)))
         ELSE /\ s # <<>>
              /\ Lower(s[1]) = Lower(p[1])
              /\ Coincide(Tail(p), Tail(s))

-----------------------------------------------------------------------------
(* Errors and the error boundary *)

\* no error
SinError == [name |-> "", statusCode |-> 0, causa |-> "ok"]

\* crearError(mensaje, statusCode): causa names the condition the message states
crearError(causa, statusCode) ==
    [name |-> "Error", statusCode |-> statusCode, causa |-> causa]

\* an error thrown by the runtime or by mongoose, told apart by error.name
ErrorDe(name, causa) == [name |-> name, statusCode |-> 0, causa |-> causa]

\* catch (error) { throw new Error(`Error ...: ${error.message}`) } of the
\* services: the message is kept, name and statusCode are lost
Envolver(e) == [name |-> "Error", statusCode |-> 0, causa |-> e.causa]

\* errorHandler: the status code of the response
errorHandler(e) ==
    IF e.name = "ValidationError" THEN 400
    ELSE IF e.name = "CastError" THEN 400
    ELSE IF e.statusCode # 0 THEN e.statusCode
    ELSE 500

-----------------------------------------------------------------------------
(* Juegos: schema constants *)

\* new Date().getFullYear() at the time of the request
AnioActual == 2026

\* validarJuego / juegoSchema: earliest year accepted
AnioMin == 1970

\* validarJuego / juegoSchema: nombre.length > 100 is rejected
MaxNombre == 100

\* legacy validarJuego: earliest year accepted
AnioMinLegacy == 1950

\* juegoSchema.horasJugadas.max
MaxHoras == 10000

\* juegoSchema.genero.enum (two of its ten values)
GenerosValidos == {"RPG", "Puzzle"}

\* transformarAFrontend: id of a document without _id
IdVacio == 0

-----------------------------------------------------------------------------
(* Juegos: documents, mappers, validation *)

\* the title a stored document shows: nombre || titulo || ''
Titulo(j) == IF j.nombre # <<>> THEN j.nombre ELSE j.titulo

\* a response without entity
SinCuerpo == [tipo |-> "nada"]

\* src/utils/transformer: transformarAFrontend (canonical application)
transformarAFrontend(j) ==
    [tipo |-> "juego",
     id |-> j._id,
     nombre |-> IF j.nombre # <<>> THEN j.nombre ELSE j.titulo,
     anio |-> IF j.anio # 0 THEN j.anio
              ELSE IF j.anioLanzamiento # 0 THEN j.anioLanzamiento
              ELSE AnioActual,
     genero |-> j.genero,
     plataforma |-> j.plataforma,
     completado |-> j.completado,
     horasJugadas |-> j.horasJugadas]

\* utils/transformer.js: transformarAFrontend (legacy application)
transformarAFrontend_legacy(j) ==
    [tipo |-> "juego",
     id |-> j._id,
     nombre |-> j.titulo,
     anio |-> j.anioLanzamiento,
     genero |-> j.genero,
     plataforma |-> j.plataforma,
     completado |-> j.completado,
     horasJugadas |-> j.horasJugadas]

\* utils/transformer.js: transformarABackend (legacy application)
transformarABackend_legacy(c) ==
    [titulo |-> c.nombre,
     anioLanzamiento |-> c.anio,
     genero |-> c.genero,
     plataforma |-> c.plataforma,
     completado |-> c.completado,
     horasJugadas |-> c.horasJugadas]

\* middleware validarJuego: the set of violated fields
validarJuego(c) ==
    {e \in {"nombre", "anio", "genero", "plataforma", "nombreLargo"} :
        \/ e = "nombre" /\ (c.nombre = <<>> \/ Len(Trim(c.nombre)) = 0)
        \/ e = "anio" /\ (c.anio = 0 \/ c.anio < AnioMin \/ c.anio > AnioActual + 2)
        \/ e = "genero" /\ c.genero = ""
        \/ e = "plataforma" /\ c.plataforma = ""
        \/ e = "nombreLargo" /\ c.nombre # <<>> /\ Len(c.nombre) > MaxNombre}

\* middleware sanitizarJuego: only truthy fields survive, strings trimmed
sanitizarJuego(c) ==
    [nombre |-> Trim(c.nombre),
     anio |-> c.anio,
     genero |-> c.genero,
     plataforma |-> c.plataforma,
     completado |-> c.completado,
     horasJugadas |-> c.horasJugadas]

\* utils/validation.js validarJuego (legacy): the set of violated fields
validarJuego_legacy(d) ==
    {e \in {"titulo", "genero", "plataforma", "anioLanzamiento"} :
        \/ e = "titulo" /\ (d.titulo = <<>> \/ Trim(d.titulo) = <<>>)
        \/ e = "genero" /\ d.genero = ""
        \/ e = "plataforma" /\ d.plataforma = ""
        \/ e = "anioLanzamiento" /\ d.anioLanzamiento # 0
             /\ (d.anioLanzamiento < AnioMinLegacy \/ d.anioLanzamiento > AnioActual + 5)}

\* juegoSchema (canonical) validators on the paths a write sets
juegoSchemaValido(d) ==
    /\ Trim(d.nombre) # <<>> /\ Len(Trim(d.nombre)) <= MaxNombre
    /\ d.anio # 0 /\ d.anio >= AnioMin /\ d.anio <= AnioActual + 2
    /\ d.genero \in GenerosValidos
    /\ d.plataforma # ""
    /\ d.horasJugadas >= 0 /\ d.horasJugadas <= MaxHoras

\* juegoSchema (legacy) validators
juegoSchemaValido_legacy(d) ==
    /\ Trim(d.titulo) # <<>>
    /\ d.genero # ""
    /\ d.plataforma # ""
    /\ d.horasJugadas >= 0

\* new Juego({...datos}) under the canonical schema
NuevoJuego(id, d) ==
    [_id |-> id, nombre |-> Trim(d.nombre), titulo |-> <<>>,
     anio |-> d.anio, anioLanzamiento |-> 0,
     genero |-> d.genero, plataforma |-> d.plataforma,
     completado |-> d.completado, horasJugadas |-> d.horasJugadas]

\* new Juego({...datosBackend}) under the legacy schema
NuevoJuego_legacy(id, d) ==
    [_id |-> id, nombre |-> <<>>, titulo |-> Trim(d.titulo),
     anio |-> 0, anioLanzamiento |-> d.anioLanzamiento,
     genero |-> d.genero, plataforma |-> d.plataforma,
     completado |-> d.completado, horasJugadas |-> d.horasJugadas]

\* Juego.findById(id)
BuscarJuego(J, id) == {j \in J : j._id = id}

\* Juego.findOne({ nombre: new RegExp(`^${nombre}$`, 'i'), _id: { $ne: id } })
BuscarPorNombre(J, nombre, excepto) ==
    {j \in J : j._id # excepto /\ j.nombre # <<>> /\ Coincide(nombre, j.nombre)}

\* what a handler hands back: the collection after it, the error it raised
\* (SinError on success) and the entity it answers with
Salida(J, e, b) == [juegos |-> J, err |-> e, body |-> b]

-----------------------------------------------------------------------------
(* Juegos: the service (JuegoService), reached through controller v2 *)

\* JuegoService.crear
JuegoService_crear(J, nid, datos) ==
    IF ~RegexValida(datos.nombre)
    THEN Salida(J, Envolver(ErrorDe("SyntaxError", "Internal")), SinCuerpo)
    ELSE IF BuscarPorNombre(J, datos.nombre, IdVacio) # {}
    THEN Salida(J, Envolver(ErrorDe("Error", "DuplicateEntity")), SinCuerpo)
    ELSE IF ~juegoSchemaValido(datos)
    THEN Salida(J, Envolver(ErrorDe("ValidationError", "ValidationFailed")), SinCuerpo)
    ELSE LET nuevo == NuevoJuego(nid, datos)
         IN  Salida(J \cup {nuevo}, SinError, transformarAFrontend(nuevo))

\* Juego.findByIdAndUpdate(id, {...datos}) under the canonical schema: the
\* paths present in datos are set, the others are kept
ActualizarDoc(j, d) ==
    [j EXCEPT !.nombre = Trim(d.nombre),
              !.anio = d.anio,
              !.genero = d.genero,
              !.plataforma = d.plataforma,
              !.completado = d.completado,
              !.horasJugadas = IF d.horasJugadas # 0 THEN d.horasJugadas ELSE @]

\* JuegoService.actualizar
JuegoService_actualizar(J, id, datos) ==
    IF BuscarJuego(J, id) = {}
    THEN Salida(J, Envolver(ErrorDe("Error", "NotFound")), SinCuerpo)
    ELSE LET existente == CHOOSE j \in J : j._id = id
             cambia == datos.nombre # <<>> /\ datos.nombre # existente.nombre
         IN  IF cambia /\ ~RegexValida(datos.nombre)
             THEN Salida(J, Envolver(ErrorDe("SyntaxError", "Internal")), SinCuerpo)
             ELSE IF cambia /\ BuscarPorNombre(J, datos.nombre, id) # {}
             THEN Salida(J, Envolver(ErrorDe("Error", "DuplicateEntity")), SinCuerpo)
             ELSE IF ~juegoSchemaValido(datos)
             THEN Salida(J, Envolver(ErrorDe("ValidationError", "ValidationFailed")),
                         SinCuerpo)
             ELSE LET nuevo == ActualizarDoc(existente, datos)
                  IN  Salida((J \ {existente}) \cup {nuevo}, SinError,
                             transformarAFrontend(nuevo))

\* a delete that answers and keeps the document in the store
JuegoService_eliminar_suave(J, id) ==
    IF BuscarJuego(J, id) = {}
    THEN Salida(J, Envolver(ErrorDe("Error", "NotFound")), SinCuerpo)
    ELSE LET eliminado == CHOOSE j \in J : j._id = id
         IN  Salida(J, SinError,
                    [tipo |-> "eliminado", id |-> eliminado._id,
                     nombre |-> eliminado.nombre])

\* JuegoService.eliminar
JuegoService_eliminar(J, id) ==
    IF BuscarJuego(J, id) = {}
    THEN Salida(J, Envolver(ErrorDe("Error", "NotFound")), SinCuerpo)
    ELSE LET eliminado == CHOOSE j \in J : j._id = id
         IN  Salida(J \ {eliminado}, SinError,
                    [tipo |-> "eliminado", id |-> eliminado._id,
                     nombre |-> eliminado.nombre])

\* JuegoService.obtenerPorId
JuegoService_obtenerPorId(J, id) ==
    IF BuscarJuego(J, id) = {}
    THEN Salida(J, Envolver(ErrorDe("Error", "NotFound")), SinCuerpo)
    ELSE Salida(J, SinError, transformarAFrontend(CHOOSE j \in J : j._id = id))

-----------------------------------------------------------------------------
(* Juegos: controller v1 (talks to the model itself) *)

\* crearJuego that inserts the document before its validators have run
crearJuego_guardaAntes(J, nid, body) ==
    IF ~RegexValida(body.nombre)
    THEN Salida(J, ErrorDe("SyntaxError", "Internal"), SinCuerpo)
    ELSE IF BuscarPorNombre(J, body.nombre, IdVacio) # {}
    THEN Salida(J, crearError("DuplicateEntity", 409), SinCuerpo)
    ELSE LET nuevo == NuevoJuego(nid, body)
         IN  IF ~juegoSchemaValido(body)
             THEN Salida(J \cup {nuevo}, ErrorDe("ValidationError", "ValidationFailed"),
                         SinCuerpo)
             ELSE Salida(J \cup {nuevo}, SinError, transformarAFrontend(nuevo))

\* juegoController.crearJuego
crearJuego(J, nid, body) ==
    IF ~RegexValida(body.nombre)
    THEN Salida(J, ErrorDe("SyntaxError", "Internal"), SinCuerpo)
    ELSE IF BuscarPorNombre(J, body.nombre, IdVacio) # {}
    THEN Salida(J, crearError("DuplicateEntity", 409), SinCuerpo)
    ELSE IF ~juegoSchemaValido(body)
    THEN Salida(J, ErrorDe("ValidationError", "ValidationFailed"), SinCuerpo)
    ELSE LET nuevo == NuevoJuego(nid, body)
         IN  Salida(J \cup {nuevo}, SinError, transformarAFrontend(nuevo))

\* juegoController.actualizarJuego
actualizarJuego(J, id, body) ==
    IF BuscarJuego(J, id) = {}
    THEN Salida(J, crearError("NotFound", 404), SinCuerpo)
    ELSE LET existente == CHOOSE j \in J : j._id = id
             cambia == body.nombre # <<>> /\ body.nombre # existente.nombre
         IN  IF cambia /\ ~RegexValida(body.nombre)
             THEN Salida(J, ErrorDe("SyntaxError", "Internal"), SinCuerpo)
             ELSE IF cambia /\ BuscarPorNombre(J, body.nombre, id) # {}
             THEN Salida(J, crearError("DuplicateEntity", 409), SinCuerpo)
             ELSE IF ~juegoSchemaValido(body)
             THEN Salida(J, ErrorDe("ValidationError", "ValidationFailed"), SinCuerpo)
             ELSE LET nuevo == ActualizarDoc(existente, body)
                  IN  Salida((J \ {existente}) \cup {nuevo}, SinError,
                             transformarAFrontend(nuevo))

\* juegoController.eliminarJuego
eliminarJuego(J, id) ==
    IF BuscarJuego(J, id) = {}
    THEN Salida(J, crearError("NotFound", 404), SinCuerpo)
    ELSE LET eliminado == CHOOSE j \in J : j._id = id
         IN  Salida(J \ {eliminado}, SinError,
                    [tipo |-> "eliminado", id |-> eliminado._id,
                     nombre |-> eliminado.nombre])

-----------------------------------------------------------------------------
(* Juegos: the earlier application (funciones/juegos) *)

\* funciones/juegos/post.js crearJuego
crearJuego_legacy(J, nid, body) ==
    LET datosBackend == transformarABackend_legacy(body)
    IN  IF validarJuego_legacy(datosBackend) # {}
        THEN Salida(J, crearError("ValidationFailed", 400), SinCuerpo)
        ELSE IF ~juegoSchemaValido_legacy(datosBackend)
        THEN Salida(J, ErrorDe("ValidationError", "ValidationFailed"), SinCuerpo)
        ELSE LET nuevo == NuevoJuego_legacy(nid, datosBackend)
             IN  Salida(J \cup {nuevo}, SinError, transformarAFrontend_legacy(nuevo))

\* Juego.findByIdAndUpdate(id, datosBackend) under the legacy schema
ActualizarDoc_legacy(j, d) ==
    [j EXCEPT !.titulo = Trim(d.titulo),
              !.anioLanzamiento = IF d.anioLanzamiento # 0 THEN d.anioLanzamiento ELSE @,
              !.genero = d.genero,
              !.plataforma = d.plataforma,
              !.completado = d.completado,
              !.horasJugadas = d.horasJugadas]

\* funciones/juegos actualizarJuego (put)
actualizarJuego_legacy(J, id, body) ==
    LET datosBackend == transformarABackend_legacy(body)
    IN  IF validarJuego_legacy(datosBackend) # {}
        THEN Salida(J, crearError("ValidationFailed", 400), SinCuerpo)
        ELSE IF ~juegoSchemaValido_legacy(datosBackend)
        THEN Salida(J, ErrorDe("ValidationError", "ValidationFailed"), SinCuerpo)
        ELSE IF BuscarJuego(J, id) = {}
        THEN Salida(J, crearError("NotFound", 404), SinCuerpo)
        ELSE LET existente == CHOOSE j \in J : j._id = id
                 nuevo == ActualizarDoc_legacy(existente, datosBackend)
             IN  Salida((J \ {existente}) \cup {nuevo}, SinError,
                        transformarAFrontend_legacy(nuevo))

\* funciones/juegos eliminarJuego (delete)
eliminarJuego_legacy(J, id) ==
    IF BuscarJuego(J, id) = {}
    THEN Salida(J, crearError("NotFound", 404), SinCuerpo)
    ELSE Salida(J \ {CHOOSE j \in J : j._id = id}, SinError, SinCuerpo)

-----------------------------------------------------------------------------
(* Juegos: routes.  A route is the validation middleware followed by the   *)
(* handler; the error, if any, goes to the error boundary of its           *)
(* application.                                                            *)

\* router.post("/", validarJuego, crearJuego) with controller v2
rutaCrearJuego_servicio(J, nid, body) ==
    IF validarJuego(body) # {}
    THEN Salida(J, crearError("ValidationFailed", 400), SinCuerpo)
    ELSE JuegoService_crear(J, nid, sanitizarJuego(body))

\* router.post("/", validarJuego, crearJuego) with controller v1
rutaCrearJuego_controlador(J, nid, body) ==
    IF validarJuego(body) # {}
    THEN Salida(J, crearError("ValidationFailed", 400), SinCuerpo)
    ELSE crearJuego(J, nid, sanitizarJuego(body))

\* router.put("/:id", validarId, validarJuego, actualizarJuego), controller v2
rutaActualizarJuego_servicio(J, id, body) ==
    IF validarJuego(body) # {}
    THEN Salida(J, crearError("ValidationFailed", 400), SinCuerpo)
    ELSE JuegoService_actualizar(J, id, sanitizarJuego(body))

\* router.put("/:id", validarId, validarJuego, actualizarJuego), controller v1
rutaActualizarJuego_controlador(J, id, body) ==
    IF validarJuego(body) # {}
    THEN Salida(J, crearError("ValidationFailed", 400), SinCuerpo)
    ELSE actualizarJuego(J, id, sanitizarJuego(body))

\* servidor.js: the error middleware is registered before the routes, so an
\* error a handler passes to next() gets the framework's default answer
manejadorPorDefecto(e) == IF e.statusCode # 0 THEN e.statusCode ELSE 500

\* the status code of a success
EstadoOk(op, ruta) ==
    IF op \in {"crearJuego", "crearResenia"} THEN 201
    ELSE IF ruta = "legacy" /\ op = "eliminarJuego" THEN 204
    ELSE 200

\* the response of a request
Respuesta(op, ruta, id, body, s) ==
    [op |-> op, ruta |-> ruta, id |-> id, cuerpo |-> body,
     causa |-> s.err.causa,
     status |-> IF s.err = SinError THEN EstadoOk(op, ruta)
                ELSE IF ruta = "legacy" THEN manejadorPorDefecto(s.err)
                ELSE errorHandler(s.err),
     body |-> s.body]

\* no request yet
SinRespuesta ==
    [op |-> "", ruta |-> "", id |-> IdVacio, cuerpo |-> SinCuerpo,
     causa |-> "ok", status |-> 0, body |-> SinCuerpo]

\* no document has been given a fechaActualizacion
SinFechas == [juegos |-> <<>>, resenias |-> <<>>]

\* requests that can be in progress at once
MaxCurso == 2

\* the slots of the requests in progress
Cursos == 1..MaxCurso

\* a slot with no request in it
Libre == [op |-> "", fase |-> "libre"]

\* no request is in progress
SinCurso == [p \in Cursos |-> Libre]

\* the seven queries obtenerDashboard awaits with Promise.all
ConsultasPanel ==
    {"obtenerEstadisticasJuegos", "obtenerEstadisticasResenias",
     "obtenerDistribucionGeneros", "obtenerDistribucionPlataformas",
     "obtenerTendenciasCreacion", "obtenerJuegosMasJugados",
     "obtenerMejoresCalificados"}

\* obtenerDashboard has not been called
SinPanel == [fase |-> "inactivo", consultas |-> [q \in ConsultasPanel |-> "inactiva"]]

-----------------------------------------------------------------------------
(* Resenias: schema constants *)

\* validarResenia / reseniaSchema: contenido.length < 10 is rejected
MinContenido == 10

\* validarResenia / reseniaSchema: contenido.length > 2000 is rejected
MaxContenido == 2000

\* validarResenia / reseniaSchema: autor.length > 50 is rejected
MaxAutor == 50

\* reseniaSchema.calificacion: min 1, max 5
CalificacionMin == 1
CalificacionMax == 5

\* the whole number n, in tenths
Decimas(n) == 10 * n

\* reseniaSchema.autor.default
Anonimo == <<"A", "n", "o", "n", "i", "m", "o">>

\* Number.isInteger on a number held in tenths
EsEntero(x) == x % 10 = 0

-----------------------------------------------------------------------------
(* Resenias: documents, mappers, validation *)

\* the rating a stored document shows: calificacion || puntuacion
Calificacion(r) == IF r.calificacion # 0 THEN r.calificacion ELSE r.puntuacion

\* middleware validarResenia: the set of violated fields
validarResenia(c) ==
    {e \in {"juegoId", "contenido", "calificacion", "autor"} :
        \/ e = "juegoId" /\ c.juegoId = IdVacio
        \/ e = "contenido"
             /\ \/ c.contenido = <<>>
                \/ Len(Trim(c.contenido)) = 0
                \/ Len(c.contenido) < MinContenido
                \/ Len(c.contenido) > MaxContenido
        \/ e = "calificacion"
             /\ \/ c.calificacion = 0
                \/ ~EsEntero(c.calificacion)
                \/ c.calificacion < Decimas(CalificacionMin)
                \/ c.calificacion > Decimas(CalificacionMax)
        \/ e = "autor" /\ c.autor # <<>> /\ Len(c.autor) > MaxAutor}

\* middleware sanitizarResenia: only truthy fields survive, strings trimmed
sanitizarResenia(c) ==
    [juegoId |-> c.juegoId,
     contenido |-> Trim(c.contenido),
     calificacion |-> c.calificacion,
     autor |-> Trim(c.autor)]

\* reseniaSchema (canonical) validators on a document to insert
reseniaSchemaValido(d) ==
    /\ d.juegoId # IdVacio
    /\ Len(Trim(d.contenido)) >= MinContenido
    /\ Len(Trim(d.contenido)) <= MaxContenido
    /\ d.calificacion >= Decimas(CalificacionMin) /\ d.calificacion <= Decimas(CalificacionMax)
    /\ EsEntero(d.calificacion)
    /\ Len(Trim(d.autor)) <= MaxAutor

\* reseniaSchema (canonical) validators on the paths an update sets
reseniaSchemaValido_update(d) ==
    /\ d.contenido # <<>> =>
          /\ Len(Trim(d.contenido)) >= MinContenido
          /\ Len(Trim(d.contenido)) <= MaxContenido
    /\ d.calificacion # 0 =>
          /\ d.calificacion >= Decimas(CalificacionMin) /\ d.calificacion <= Decimas(CalificacionMax)
          /\ EsEntero(d.calificacion)
    /\ Len(Trim(d.autor)) <= MaxAutor

\* models/resenia.js (legacy) validators: puntuacion min 1, max 5
reseniaSchemaValido_legacy(d) ==
    /\ d.juegoId # IdVacio
    /\ d.puntuacion # 0 =>
          d.puntuacion >= Decimas(CalificacionMin) /\ d.puntuacion <= Decimas(CalificacionMax)

\* new Resenia({juegoId, contenido, calificacion, autor}), canonical schema
NuevaResenia(id, d) ==
    [_id |-> id, juegoId |-> d.juegoId, contenido |-> Trim(d.contenido),
     calificacion |-> d.calificacion, puntuacion |-> 0,
     autor |-> IF Trim(d.autor) # <<>> THEN Trim(d.autor) ELSE Anonimo]

\* new Resenia({juegoId, comentario, puntuacion, nombreUsuario}), legacy
\* schema: comentario and nombreUsuario are not paths of it and are dropped
NuevaResenia_legacy(id, d) ==
    [_id |-> id, juegoId |-> d.juegoId, contenido |-> <<>>,
     calificacion |-> 0, puntuacion |-> d.puntuacion, autor |-> <<>>]

\* Resenia.findById(id)
BuscarResenia(R, id) == {r \in R : r._id = id}

\* populate('juegoId', 'nombre genero'): the referenced document, or null
\* when no document has that _id
Populate(J, r) ==
    IF BuscarJuego(J, r.juegoId) = {}
    THEN [tipo |-> "null"]
    ELSE LET j == CHOOSE x \in J : x._id = r.juegoId
         IN  [tipo |-> "doc", _id |-> j._id, nombre |-> j.nombre, genero |-> j.genero]

\* transformarReseniaAFrontend of a document whose juegoId was populated
transformarReseniaAFrontend(r, poblado) ==
    [tipo |-> "resenia",
     id |-> r._id,
     juegoId |-> IF poblado.tipo = "doc" THEN poblado._id ELSE IdVacio,
     juegoNombre |-> IF poblado.tipo = "doc" THEN poblado.nombre ELSE <<>>,
     contenido |-> r.contenido,
     calificacion |-> IF r.calificacion # 0 THEN r.calificacion
                      ELSE IF r.puntuacion # 0 THEN r.puntuacion
                      ELSE Decimas(CalificacionMin),
     autor |-> IF r.autor # <<>> THEN r.autor ELSE Anonimo]

\* res.json(resenia) of the earlier application: the document as stored, its
\* juegoId populated
JsonResenia_legacy(r, poblado) ==
    [tipo |-> "resenia",
     id |-> r._id,
     juegoId |-> IF poblado.tipo = "doc" THEN poblado._id ELSE IdVacio,
     puntuacion |-> r.puntuacion]

\* what a handler of resenias hands back
SalidaR(R, e, b) == [resenias |-> R, err |-> e, body |-> b]

-----------------------------------------------------------------------------
(* Resenias: the service (ReseniaService) *)

\* ReseniaService.crear
ReseniaService_crear(J, R, nid, datos) ==
    IF BuscarJuego(J, datos.juegoId) = {}
    THEN SalidaR(R, Envolver(ErrorDe("Error", "NotFound")), SinCuerpo)
    ELSE IF /\ datos.autor # <<>> /\ datos.autor # Anonimo
            /\ \E r \in R : r.juegoId = datos.juegoId /\ r.autor = datos.autor
    THEN SalidaR(R, Envolver(ErrorDe("Error", "DuplicateEntity")), SinCuerpo)
    ELSE IF datos.contenido = <<>>
    THEN SalidaR(R, Envolver(ErrorDe("TypeError", "Internal")), SinCuerpo)
    ELSE IF ~reseniaSchemaValido(datos)
    THEN SalidaR(R, Envolver(ErrorDe("ValidationError", "ValidationFailed")), SinCuerpo)
    ELSE LET nueva == NuevaResenia(nid, datos)
         IN  SalidaR(R \cup {nueva}, SinError,
                     transformarReseniaAFrontend(nueva, Populate(J, nueva)))

\* Resenia.findByIdAndUpdate(id, {...datos}) under the canonical schema
ActualizarDocResenia(r, d) ==
    [r EXCEPT !.juegoId = IF d.juegoId # IdVacio THEN d.juegoId ELSE @,
              !.contenido = IF d.contenido # <<>> THEN Trim(d.contenido) ELSE @,
              !.calificacion = IF d.calificacion # 0 THEN d.calificacion ELSE @,
              !.autor = IF d.autor # <<>> THEN Trim(d.autor) ELSE @]

\* ReseniaService.actualizar
ReseniaService_actualizar(J, R, id, datos) ==
    IF BuscarResenia(R, id) = {}
    THEN SalidaR(R, Envolver(ErrorDe("Error", "NotFound")), SinCuerpo)
    ELSE LET existente == CHOOSE r \in R : r._id = id
         IN  IF /\ datos.juegoId # IdVacio /\ datos.juegoId # existente.juegoId
                /\ BuscarJuego(J, datos.juegoId) = {}
             THEN SalidaR(R, Envolver(ErrorDe("Error", "NotFound")), SinCuerpo)
             ELSE IF ~reseniaSchemaValido_update(datos)
             THEN SalidaR(R, Envolver(ErrorDe("ValidationError", "ValidationFailed")),
                          SinCuerpo)
             ELSE LET nueva == ActualizarDocResenia(existente, datos)
                  IN  SalidaR((R \ {existente}) \cup {nueva}, SinError,
                              transformarReseniaAFrontend(nueva, Populate(J, nueva)))

\* ReseniaService.obtenerPorId
ReseniaService_obtenerPorId(J, R, id) ==
    IF BuscarResenia(R, id) = {}
    THEN SalidaR(R, Envolver(ErrorDe("Error", "NotFound")), SinCuerpo)
    ELSE LET r == CHOOSE x \in R : x._id = id
         IN  SalidaR(R, SinError, transformarReseniaAFrontend(r, Populate(J, r)))

-----------------------------------------------------------------------------
(* Resenias: the controller (reseniaController) *)

\* reseniaController.crearResenia
crearResenia(J, R, nid, body) ==
    IF BuscarJuego(J, body.juegoId) = {}
    THEN SalidaR(R, crearError("NotFound", 404), SinCuerpo)
    ELSE IF ~reseniaSchemaValido(body)
    THEN SalidaR(R, ErrorDe("ValidationError", "ValidationFailed"), SinCuerpo)
    ELSE LET nueva == NuevaResenia(nid, body)
         IN  SalidaR(R \cup {nueva}, SinError,
                     transformarReseniaAFrontend(nueva, Populate(J, nueva)))

\* actualizarResenia without the lookup of the item a changed reference names
actualizarResenia_sinJuego(J, R, id, body) ==
    IF BuscarResenia(R, id) = {}
    THEN SalidaR(R, crearError("NotFound", 404), SinCuerpo)
    ELSE LET existente == CHOOSE r \in R : r._id = id
             nueva == ActualizarDocResenia(existente, body)
         IN  IF ~reseniaSchemaValido_update(body)
             THEN SalidaR(R, ErrorDe("ValidationError", "ValidationFailed"), SinCuerpo)
             ELSE SalidaR((R \ {existente}) \cup {nueva}, SinError,
                          transformarReseniaAFrontend(nueva, Populate(J, nueva)))

\* reseniaController.actualizarResenia
actualizarResenia(J, R, id, body) ==
    IF BuscarResenia(R, id) = {}
    THEN SalidaR(R, crearError("NotFound", 404), SinCuerpo)
    ELSE LET existente == CHOOSE r \in R : r._id = id
         IN  IF /\ body.juegoId # IdVacio /\ body.juegoId # existente.juegoId
                /\ BuscarJuego(J, body.juegoId) = {}
             THEN SalidaR(R, crearError("NotFound", 404), SinCuerpo)
             ELSE IF ~reseniaSchemaValido_update(body)
             THEN SalidaR(R, ErrorDe("ValidationError", "ValidationFailed"), SinCuerpo)
             ELSE LET nueva == ActualizarDocResenia(existente, body)
                  IN  SalidaR((R \ {existente}) \cup {nueva}, SinError,
                              transformarReseniaAFrontend(nueva, Populate(J, nueva)))

\* reseniaController.obtenerReseniaPorId
obtenerReseniaPorId(J, R, id) ==
    IF BuscarResenia(R, id) = {}
    THEN SalidaR(R, crearError("NotFound", 404), SinCuerpo)
    ELSE LET r == CHOOSE x \in R : x._id = id
         IN  SalidaR(R, SinError, transformarReseniaAFrontend(r, Populate(J, r)))

\* router.post("/", validarResenia, crearResenia)
rutaCrearResenia(J, R, nid, body) ==
    IF validarResenia(body) # {}
    THEN SalidaR(R, crearError("ValidationFailed", 400), SinCuerpo)
    ELSE crearResenia(J, R, nid, sanitizarResenia(body))

\* router.put("/:id", validarId, validarResenia, actualizarResenia)
rutaActualizarResenia(J, R, id, body) ==
    IF validarResenia(body) # {}
    THEN SalidaR(R, crearError("ValidationFailed", 400), SinCuerpo)
    ELSE actualizarResenia(J, R, id, sanitizarResenia(body))

-----------------------------------------------------------------------------
(* Resenias: the earlier application (funciones/resenias) *)

\* funciones/resenias/post.js crearResenia
crearResenia_legacy(J, R, nid, body) ==
    IF body.juegoId = IdVacio
    THEN SalidaR(R, crearError("ValidationFailed", 400), SinCuerpo)
    ELSE IF BuscarJuego(J, body.juegoId) = {}
    THEN SalidaR(R, crearError("NotFound", 404), SinCuerpo)
    ELSE IF body.comentario = <<>> \/ body.puntuacion = 0 \/ body.nombreUsuario = <<>>
    THEN SalidaR(R, crearError("ValidationFailed", 400), SinCuerpo)
    ELSE IF \/ body.puntuacion < Decimas(CalificacionMin)
            \/ body.puntuacion > Decimas(CalificacionMax)
    THEN SalidaR(R, crearError("ValidationFailed", 400), SinCuerpo)
    ELSE IF ~reseniaSchemaValido_legacy(body)
    THEN SalidaR(R, ErrorDe("ValidationError", "ValidationFailed"), SinCuerpo)
    ELSE LET nueva == NuevaResenia_legacy(nid, body)
         IN  SalidaR(R \cup {nueva}, SinError,
                     JsonResenia_legacy(nueva, Populate(J, nueva)))

\* actualizarResenia of the earlier application (put)
actualizarResenia_legacy(J, R, id, body) ==
    IF BuscarResenia(R, id) = {}
    THEN SalidaR(R, crearError("NotFound", 404), SinCuerpo)
    ELSE IF /\ body.puntuacion # 0
            /\ \/ body.puntuacion < Decimas(CalificacionMin)
               \/ body.puntuacion > Decimas(CalificacionMax)
    THEN SalidaR(R, crearError("ValidationFailed", 400), SinCuerpo)
    ELSE LET existente == CHOOSE r \in R : r._id = id
             nueva == [existente EXCEPT
                          !.puntuacion = IF body.puntuacion # 0 THEN body.puntuacion
                                         ELSE @]
         IN  SalidaR((R \ {existente}) \cup {nueva}, SinError,
                     JsonResenia_legacy(nueva, Populate(J, nueva)))

-----------------------------------------------------------------------------
(* Juegos: the requests of the model *)

\* titles that pass validation: plain ones, two that differ in case only, and
\* two with the quantifier of regular expressions
Titulos == {<<"a">>, <<"A">>, <<"b">>, <<"a", "+">>, <<"+">>}

\* a well-formed request body
CuerpoBase ==
    [nombre |-> <<"a">>, anio |-> 2020, genero |-> "RPG", plataforma |-> "PC",
     completado |-> FALSE, horasJugadas |-> 0]

\* the bodies of POST /juegos and PUT /juegos/:id: every title, and a blank one
CuerposJuego ==
    {[CuerpoBase EXCEPT !.nombre = t] : t \in Titulos \cup {<<" ">>}}

\* the ids a request can name
IdsJuego == 1..MaxJuegos

\* $set fechaActualizacion: ahora on the document id of a collection
ConFecha(F, id, ahora) == (id :> ahora) @@ F

\* the document id is gone, and its fechaActualizacion with it
SinFecha(F, id) == [k \in DOMAIN F \ {id} |-> F[k]]

\* {..., fechaActualizacion: new Date()} of a write that succeeded (also the
\* default and the pre('save') / pre('findOneAndUpdate') hooks of the schemas)
Sellar(s, col, id) ==
    IF s.err = SinError THEN [fechas EXCEPT ![col] = ConFecha(@, id, reloj)]
    ELSE fechas

\* findByIdAndDelete that succeeded
Quitar(s, col, id) ==
    IF s.err = SinError THEN [fechas EXCEPT ![col] = SinFecha(@, id)]
    ELSE fechas

\* the store has an _id left for the document a request inserts
Cabe(s) == Cardinality(s.juegos) > Cardinality(juegos) => sigJuego <= MaxJuegos

\* the next _id after a request
Siguiente(s) ==
    IF Cardinality(s.juegos) > Cardinality(juegos) THEN sigJuego + 1 ELSE sigJuego

CrearJuegoServicio(C) ==
    \E body \in C :
        \E s \in {rutaCrearJuego_servicio(juegos, sigJuego, body)} :
            /\ Cabe(s)
            /\ juegos' = s.juegos
            /\ sigJuego' = Siguiente(s)
            /\ res' = Respuesta("crearJuego", "servicio", IdVacio, body, s)
            /\ fechas' = Sellar(s, "juegos", sigJuego)
            /\ UNCHANGED <<enCurso, panel, cupo, reloj, resenias, sigResenia, resPrevio>>

CrearJuegoControlador(C) ==
    \E body \in C :
        \E s \in {rutaCrearJuego_controlador(juegos, sigJuego, body)} :
            /\ Cabe(s)
            /\ juegos' = s.juegos
            /\ sigJuego' = Siguiente(s)
            /\ res' = Respuesta("crearJuego", "controlador", IdVacio, body, s)
            /\ fechas' = Sellar(s, "juegos", sigJuego)
            /\ UNCHANGED <<enCurso, panel, cupo, reloj, resenias, sigResenia, resPrevio>>

CrearJuegoLegacy(C) ==
    \E body \in C :
        \E s \in {crearJuego_legacy(juegos, sigJuego, body)} :
            /\ Cabe(s)
            /\ juegos' = s.juegos
            /\ sigJuego' = Siguiente(s)
            /\ res' = Respuesta("crearJuego", "legacy", IdVacio, body, s)
            /\ UNCHANGED <<enCurso, panel, cupo, reloj, fechas, resenias, sigResenia, resPrevio>>

ActualizarJuegoServicio(C) ==
    \E id \in IdsJuego, body \in C :
        \E s \in {rutaActualizarJuego_servicio(juegos, id, body)} :
            /\ Cabe(s)
            /\ juegos' = s.juegos
            /\ sigJuego' = Siguiente(s)
            /\ res' = Respuesta("actualizarJuego", "servicio", id, body, s)
            /\ fechas' = Sellar(s, "juegos", id)
            /\ UNCHANGED <<enCurso, panel, cupo, reloj, resenias, sigResenia, resPrevio>>

ActualizarJuegoControlador(C) ==
    \E id \in IdsJuego, body \in C :
        \E s \in {rutaActualizarJuego_controlador(juegos, id, body)} :
            /\ Cabe(s)
            /\ juegos' = s.juegos
            /\ sigJuego' = Siguiente(s)
            /\ res' = Respuesta("actualizarJuego", "controlador", id, body, s)
            /\ fechas' = Sellar(s, "juegos", id)
            /\ UNCHANGED <<enCurso, panel, cupo, reloj, resenias, sigResenia, resPrevio>>

ActualizarJuegoLegacy(C) ==
    \E id \in IdsJuego, body \in C :
        \E s \in {actualizarJuego_legacy(juegos, id, body)} :
            /\ Cabe(s)
            /\ juegos' = s.juegos
            /\ sigJuego' = Siguiente(s)
            /\ res' = Respuesta("actualizarJuego", "legacy", id, body, s)
            /\ UNCHANGED <<enCurso, panel, cupo, reloj, fechas, resenias, sigResenia, resPrevio>>

EliminarJuegoServicio ==
    \E id \in IdsJuego :
        \E s \in {JuegoService_eliminar(juegos, id)} :
            /\ Cabe(s)
            /\ juegos' = s.juegos
            /\ sigJuego' = Siguiente(s)
            /\ res' = Respuesta("eliminarJuego", "servicio", id, SinCuerpo, s)
            /\ fechas' = Quitar(s, "juegos", id)
            /\ UNCHANGED <<enCurso, panel, cupo, reloj, resenias, sigResenia, resPrevio>>

EliminarJuegoControlador ==
    \E id \in IdsJuego :
        \E s \in {eliminarJuego(juegos, id)} :
            /\ Cabe(s)
            /\ juegos' = s.juegos
            /\ sigJuego' = Siguiente(s)
            /\ res' = Respuesta("eliminarJuego", "controlador", id, SinCuerpo, s)
            /\ fechas' = Quitar(s, "juegos", id)
            /\ UNCHANGED <<enCurso, panel, cupo, reloj, resenias, sigResenia, resPrevio>>

EliminarJuegoLegacy ==
    \E id \in IdsJuego :
        \E s \in {eliminarJuego_legacy(juegos, id)} :
            /\ Cabe(s)
            /\ juegos' = s.juegos
            /\ sigJuego' = Siguiente(s)
            /\ res' = Respuesta("eliminarJuego", "legacy", id, SinCuerpo, s)
            /\ fechas' = Quitar(s, "juegos", id)
            /\ UNCHANGED <<enCurso, panel, cupo, reloj, resenias, sigResenia, resPrevio>>

-----------------------------------------------------------------------------
(* The catalogue of juegos: every route that writes the collection *)

Init ==
    /\ juegos = {}
    /\ resenias = {}
    /\ sigJuego = 1
    /\ sigResenia = 1
    /\ res = SinRespuesta
    /\ resPrevio = SinRespuesta
    /\ reloj = 0
    /\ panel = SinPanel
    /\ enCurso = SinCurso
    /\ cupo = MaxResenias
    /\ fechas = SinFechas

Next ==
    \/ CrearJuegoServicio(CuerposJuego)
    \/ CrearJuegoControlador(CuerposJuego)
    \/ CrearJuegoLegacy(CuerposJuego)
    \/ ActualizarJuegoServicio(CuerposJuego)
    \/ ActualizarJuegoControlador(CuerposJuego)
    \/ ActualizarJuegoLegacy(CuerposJuego)
    \/ EliminarJuegoServicio
    \/ EliminarJuegoControlador
    \/ EliminarJuegoLegacy

Spec == Init /\ [][Next]_vars

-----------------------------------------------------------------------------
(* Resenias: the requests of the model *)

\* a well-formed request body of the canonical application
CuerpoResenia ==
    [juegoId |-> 1, contenido |-> Repetir("x", MinContenido),
     calificacion |-> Decimas(4), autor |-> <<>>]

\* the bodies of POST /resenias and PUT /resenias/:id: a review of each item,
\* a signed one, one with the rating 4.5
CuerposResenia ==
    {[CuerpoResenia EXCEPT !.juegoId = j] : j \in 1..MaxJuegos}
    \cup {[CuerpoResenia EXCEPT !.autor = <<"n">>],
          [CuerpoResenia EXCEPT !.calificacion = 45]}

\* a well-formed request body of the earlier application
CuerpoResenia_legacy ==
    [juegoId |-> 1, comentario |-> <<"x">>, puntuacion |-> Decimas(4),
     nombreUsuario |-> <<"n">>]

\* the bodies the earlier application receives
CuerposResenia_legacy ==
    {[CuerpoResenia_legacy EXCEPT !.juegoId = j] : j \in 1..MaxJuegos}
    \cup {[CuerpoResenia_legacy EXCEPT !.puntuacion = 45]}

\* the ids a request can name
IdsResenia == 1..cupo

\* the store has an _id left for the document a request inserts
CabeR(s) == Cardinality(s.resenias) > Cardinality(resenias) => sigResenia <= cupo

\* the next _id after a request
SiguienteR(s) ==
    IF Cardinality(s.resenias) > Cardinality(resenias) THEN sigResenia + 1
    ELSE sigResenia

CrearReseniaServicio(C) ==
    \E body \in C :
        \E s \in {ReseniaService_crear(juegos, resenias, sigResenia, body)} :
            /\ CabeR(s)
            /\ resenias' = s.resenias
            /\ sigResenia' = SiguienteR(s)
            /\ res' = Respuesta("crearResenia", "servicio", IdVacio, body, s)
            /\ fechas' = Sellar(s, "resenias", sigResenia)
            /\ UNCHANGED <<enCurso, panel, cupo, reloj, juegos, sigJuego, resPrevio>>

CrearReseniaControlador(C) ==
    \E body \in C :
        \E s \in {rutaCrearResenia(juegos, resenias, sigResenia, body)} :
            /\ CabeR(s)
            /\ resenias' = s.resenias
            /\ sigResenia' = SiguienteR(s)
            /\ res' = Respuesta("crearResenia", "controlador", IdVacio, body, s)
            /\ fechas' = Sellar(s, "resenias", sigResenia)
            /\ UNCHANGED <<enCurso, panel, cupo, reloj, juegos, sigJuego, resPrevio>>

CrearReseniaLegacy(C) ==
    \E body \in C :
        \E s \in {crearResenia_legacy(juegos, resenias, sigResenia, body)} :
            /\ CabeR(s)
            /\ resenias' = s.resenias
            /\ sigResenia' = SiguienteR(s)
            /\ res' = Respuesta("crearResenia", "legacy", IdVacio, body, s)
            /\ fechas' = Sellar(s, "resenias", sigResenia)
            /\ UNCHANGED <<enCurso, panel, cupo, reloj, juegos, sigJuego, resPrevio>>

ActualizarReseniaServicio(C) ==
    \E id \in IdsResenia, body \in C :
        \E s \in {ReseniaService_actualizar(juegos, resenias, id, body)} :
            /\ CabeR(s)
            /\ resenias' = s.resenias
            /\ sigResenia' = SiguienteR(s)
            /\ res' = Respuesta("actualizarResenia", "servicio", id, body, s)
            /\ fechas' = Sellar(s, "resenias", id)
            /\ UNCHANGED <<enCurso, panel, cupo, reloj, juegos, sigJuego, resPrevio>>

ActualizarReseniaControlador(C) ==
    \E id \in IdsResenia, body \in C :
        \E s \in {rutaActualizarResenia(juegos, resenias, id, body)} :
            /\ CabeR(s)
            /\ resenias' = s.resenias
            /\ sigResenia' = SiguienteR(s)
            /\ res' = Respuesta("actualizarResenia", "controlador", id, body, s)
            /\ fechas' = Sellar(s, "resenias", id)
            /\ UNCHANGED <<enCurso, panel, cupo, reloj, juegos, sigJuego, resPrevio>>

ActualizarReseniaLegacy(C) ==
    \E id \in IdsResenia, body \in C :
        \E s \in {actualizarResenia_legacy(juegos, resenias, id, body)} :
            /\ CabeR(s)
            /\ resenias' = s.resenias
            /\ sigResenia' = SiguienteR(s)
            /\ res' = Respuesta("actualizarResenia", "legacy", id, body, s)
            /\ UNCHANGED <<enCurso, panel, cupo, reloj, fechas, juegos, sigJuego, resPrevio>>

ObtenerReseniaServicio ==
    \E id \in IdsResenia :
        \E s \in {ReseniaService_obtenerPorId(juegos, resenias, id)} :
            /\ CabeR(s)
            /\ resenias' = s.resenias
            /\ sigResenia' = SiguienteR(s)
            /\ res' = Respuesta("obtenerResenia", "servicio", id, SinCuerpo, s)
            /\ UNCHANGED <<enCurso, panel, cupo, reloj, fechas, juegos, sigJuego, resPrevio>>

ObtenerReseniaControlador ==
    \E id \in IdsResenia :
        \E s \in {obtenerReseniaPorId(juegos, resenias, id)} :
            /\ CabeR(s)
            /\ resenias' = s.resenias
            /\ sigResenia' = SiguienteR(s)
            /\ res' = Respuesta("obtenerResenia", "controlador", id, SinCuerpo, s)
            /\ UNCHANGED <<enCurso, panel, cupo, reloj, fechas, juegos, sigJuego, resPrevio>>

-----------------------------------------------------------------------------
(* Resenias and the juegos they refer to *)

NextResenias ==
    \/ CrearJuegoServicio({CuerpoBase})
    \/ EliminarJuegoServicio
    \/ EliminarJuegoControlador
    \/ CrearReseniaServicio(CuerposResenia)
    \/ CrearReseniaControlador(CuerposResenia)
    \/ CrearReseniaLegacy(CuerposResenia_legacy)
    \/ ActualizarReseniaServicio(CuerposResenia)
    \/ ActualizarReseniaControlador(CuerposResenia)
    \/ ActualizarReseniaLegacy(CuerposResenia_legacy)
    \/ ObtenerReseniaServicio
    \/ ObtenerReseniaControlador

SpecResenias == Init /\ [][NextResenias]_vars

-----------------------------------------------------------------------------
(* Writes with malformed bodies *)

\* bodies the canonical application must refuse: title absent, blank or too
\* long; year absent or out of range; genre absent or outside the enumeration;
\* platform absent; hours above the maximum
InvalidosJuego ==
    {[CuerpoBase EXCEPT !.nombre = t] :
        t \in {<<>>, <<" ">>, Repetir("a", MaxNombre + 1)}}
    \cup {[CuerpoBase EXCEPT !.anio = a] : a \in {0, AnioMin - 1, AnioActual + 3}}
    \cup {[CuerpoBase EXCEPT !.genero = g] : g \in {"", "MOBA"}}
    \cup {[CuerpoBase EXCEPT !.plataforma = ""],
          [CuerpoBase EXCEPT !.horasJugadas = MaxHoras + 1]}

\* bodies the earlier application must refuse
InvalidosJuego_legacy ==
    {[CuerpoBase EXCEPT !.nombre = t] : t \in {<<>>, <<" ">>}}
    \cup {[CuerpoBase EXCEPT !.anio = a] : a \in {AnioMinLegacy - 1, AnioActual + 6}}
    \cup {[CuerpoBase EXCEPT !.genero = ""],
          [CuerpoBase EXCEPT !.plataforma = ""],
          [CuerpoBase EXCEPT !.horasJugadas = -1]}

\* review bodies with a value that is present and malformed: text too short
\* (also once trimmed) or too long, rating fractional or out of range, author
\* too long
MalformadosResenia ==
    {[CuerpoResenia EXCEPT !.contenido = c] :
        c \in {Repetir("x", MinContenido - 1),
               Repetir("x", MinContenido - 1) \o <<" ">>,
               Repetir("x", MaxContenido + 1)}}
    \cup {[CuerpoResenia EXCEPT !.calificacion = c] :
             c \in {45, Decimas(CalificacionMax + 1)}}
    \cup {[CuerpoResenia EXCEPT !.autor = Repetir("n", MaxAutor + 1)]}

\* review bodies with a required field missing
IncompletosResenia ==
    {[CuerpoResenia EXCEPT !.juegoId = IdVacio],
     [CuerpoResenia EXCEPT !.contenido = <<>>],
     [CuerpoResenia EXCEPT !.calificacion = 0]}

\* review bodies of the earlier application with a rating out of range
MalformadosResenia_legacy ==
    {[CuerpoResenia_legacy EXCEPT !.puntuacion = Decimas(CalificacionMax + 1)]}

\* review bodies of the earlier application with a required field missing
IncompletosResenia_legacy ==
    {[CuerpoResenia_legacy EXCEPT !.juegoId = IdVacio],
     [CuerpoResenia_legacy EXCEPT !.comentario = <<>>],
     [CuerpoResenia_legacy EXCEPT !.puntuacion = 0],
     [CuerpoResenia_legacy EXCEPT !.nombreUsuario = <<>>]}

NextValidacion ==
    \/ CrearJuegoServicio({CuerpoBase} \cup InvalidosJuego)
    \/ CrearJuegoControlador({CuerpoBase} \cup InvalidosJuego)
    \/ CrearJuegoLegacy({CuerpoBase} \cup InvalidosJuego_legacy)
    \/ ActualizarJuegoServicio({CuerpoBase} \cup InvalidosJuego)
    \/ ActualizarJuegoControlador({CuerpoBase} \cup InvalidosJuego)
    \/ ActualizarJuegoLegacy({CuerpoBase} \cup InvalidosJuego_legacy)
    \/ CrearReseniaServicio({CuerpoResenia} \cup MalformadosResenia
                                \cup IncompletosResenia)
    \/ CrearReseniaControlador({CuerpoResenia} \cup MalformadosResenia
                                   \cup IncompletosResenia)
    \/ CrearReseniaLegacy({CuerpoResenia_legacy} \cup MalformadosResenia_legacy
                              \cup IncompletosResenia_legacy)
    \/ ActualizarReseniaServicio({CuerpoResenia} \cup MalformadosResenia
                                     \cup IncompletosResenia)
    \/ ActualizarReseniaControlador({CuerpoResenia} \cup MalformadosResenia
                                        \cup IncompletosResenia)
    \/ ActualizarReseniaLegacy({CuerpoResenia_legacy} \cup MalformadosResenia_legacy
                                   \cup IncompletosResenia_legacy)

SpecValidacion == Init /\ [][NextValidacion]_vars

-----------------------------------------------------------------------------
(* Statistics (EstadisticasService): aggregation pipelines over "juegos" *)

\* items in a store whose statistics are asked for
MaxEst == 3

\* the value of the _id expression of a $group for a document: "$genero",
\* "$plataforma", or null
Clave(j, campo) ==
    IF campo = "genero" THEN j.genero
    ELSE IF campo = "plataforma" THEN j.plataforma
    ELSE "null"

\* $group: one row per value of the key among the documents, with
\* cantidad: {$sum: 1} and completados: {$sum: {$cond: ["$completado", 1, 0]}}
Agrupar(J, campo) ==
    {[_id |-> k,
      cantidad |-> Cardinality({j \in J : Clave(j, campo) = k}),
      completados |-> Cardinality({j \in J : Clave(j, campo) = k /\ j.completado})] :
        k \in {Clave(j, campo) : j \in J}}

\* $round: [num / den, 0], halves to the even neighbour
Redondear(num, den) ==
    LET q == num \div den
        r == num % den
    IN  IF 2 * r > den \/ (2 * r = den /\ q % 2 = 1) THEN q + 1 ELSE q

\* {$round: [{$multiply: [{$divide: [c, t]}, 100]}, 1]}, in tenths
Porcentaje(c, t) == Redondear(c * 100 * 10, t)

\* $project of a row of a distribution
ProyectarFila(g) ==
    [clave |-> g._id, cantidad |-> g.cantidad, completados |-> g.completados,
     pendientes |-> g.cantidad - g.completados,
     porcentajeCompletado |-> Porcentaje(g.completados, g.cantidad)]

\* {$sort: {cantidad: -1}}: the orders the sort can return (rows with the same
\* cantidad come in any order)
Ordenadas(filas) ==
    {f \in [1..Cardinality(filas) -> filas] :
        /\ \A i, k \in DOMAIN f : i # k => f[i] # f[k]
        /\ \A i, k \in DOMAIN f : i < k => f[i].cantidad >= f[k].cantidad}

\* an aggregation whose $divide meets a zero divisor fails as a whole
DivisionPorCero(grupos) == \E g \in grupos : g.cantidad = 0

\* obtenerEstadisticasJuegos without the object that stands in for the row of
\* an empty collection
obtenerEstadisticasJuegos_sinRespaldo(J) ==
    LET grupos == Agrupar(J, "null")
    IN  IF grupos = {}
        THEN Salida(J, SinError, SinCuerpo)
        ELSE LET g == CHOOSE x \in grupos : TRUE
             IN  Salida(J, SinError,
                        [tipo |-> "estadisticas", totalJuegos |-> g.cantidad,
                         juegsCompletados |-> g.completados,
                         juegosPendientes |-> g.cantidad - g.completados,
                         porcentajeCompletado |-> Porcentaje(g.completados, g.cantidad)])

\* EstadisticasService.obtenerEstadisticasJuegos
obtenerEstadisticasJuegos(J) ==
    LET grupos == Agrupar(J, "null")
    IN  IF DivisionPorCero(grupos)
        THEN Salida(J, Envolver(ErrorDe("MongoServerError", "Internal")), SinCuerpo)
        ELSE IF grupos = {}
        THEN Salida(J, SinError,
                    [tipo |-> "estadisticas", totalJuegos |-> 0, juegsCompletados |-> 0,
                     juegosPendientes |-> 0, porcentajeCompletado |-> 0])
        ELSE LET g == CHOOSE x \in grupos : TRUE
             IN  Salida(J, SinError,
                        [tipo |-> "estadisticas", totalJuegos |-> g.cantidad,
                         juegsCompletados |-> g.completados,
                         juegosPendientes |-> g.cantidad - g.completados,
                         porcentajeCompletado |-> Porcentaje(g.completados, g.cantidad)])

\* the outcomes of a distribution pipeline over the groups of a key
Distribucion(J, grupos) ==
    IF DivisionPorCero(grupos)
    THEN {Salida(J, Envolver(ErrorDe("MongoServerError", "Internal")), SinCuerpo)}
    ELSE {Salida(J, SinError, [tipo |-> "distribucion", filas |-> f]) :
             f \in Ordenadas({ProyectarFila(g) : g \in grupos})}

\* EstadisticasService.obtenerDistribucionGeneros
obtenerDistribucionGeneros(J) == Distribucion(J, Agrupar(J, "genero"))

\* EstadisticasService.obtenerDistribucionPlataformas
obtenerDistribucionPlataformas(J) ==
    Distribucion(J, Agrupar(J, "plataforma"))

ObtenerEstadisticasJuegos ==
    \E s \in {obtenerEstadisticasJuegos(juegos)} :
        /\ res' = Respuesta("obtenerEstadisticasJuegos", "servicio", IdVacio, SinCuerpo, s)
        /\ UNCHANGED <<enCurso, panel, cupo, reloj, fechas, juegos, resenias, sigJuego, sigResenia, resPrevio>>

ObtenerDistribucionGeneros ==
    \E s \in obtenerDistribucionGeneros(juegos) :
        /\ res' = Respuesta("obtenerDistribucionGeneros", "servicio", IdVacio, SinCuerpo, s)
        /\ UNCHANGED <<enCurso, panel, cupo, reloj, fechas, juegos, resenias, sigJuego, sigResenia, resPrevio>>

ObtenerDistribucionPlataformas ==
    \E s \in obtenerDistribucionPlataformas(juegos) :
        /\ res' = Respuesta("obtenerDistribucionPlataformas", "servicio", IdVacio,
                            SinCuerpo, s)
        /\ UNCHANGED <<enCurso, panel, cupo, reloj, fechas, juegos, resenias, sigJuego, sigResenia, resPrevio>>

\* a stored item of the given genre, platform and completion
JuegoEst(id, g, p, c) ==
    [NuevoJuego(id, [CuerpoBase EXCEPT !.nombre = Repetir("a", id)])
        EXCEPT !.genero = g, !.plataforma = p, !.completado = c]

\* the stores of up to MaxEst items, with every mix of two genres, two
\* platforms and completion
InitEstadisticas ==
    /\ \E n \in 0..MaxEst :
          \E f \in [1..n -> GenerosValidos \X {"PC", "Switch"} \X BOOLEAN] :
             juegos = {JuegoEst(i, f[i][1], f[i][2], f[i][3]) : i \in 1..n}
    /\ sigJuego = Cardinality(juegos) + 1
    /\ resenias = {}
    /\ sigResenia = 1
    /\ res = SinRespuesta
    /\ resPrevio = SinRespuesta
    /\ reloj = 0
    /\ panel = SinPanel
    /\ enCurso = SinCurso
    /\ cupo = MaxResenias
    /\ fechas = SinFechas

NextEstadisticas ==
    \/ ObtenerEstadisticasJuegos
    \/ ObtenerDistribucionGeneros
    \/ ObtenerDistribucionPlataformas
    \/ EliminarJuegoServicio

SpecEstadisticas == InitEstadisticas /\ [][NextEstadisticas]_vars

-----------------------------------------------------------------------------
(* Listings: query parameters, sort, skip and limit *)

\* a query parameter: absent, a text that is no number, or a number
Ausente == [tipo |-> "ausente", n |-> 0]
Texto == [tipo |-> "texto", n |-> 0]
Numero(k) == [tipo |-> "numero", n |-> k]

\* isNaN(parseInt(v)) of a parameter that is present
EsNaN(v) == v.tipo = "texto"

\* const { limite = d } = filtros: the default stands in for an absent value
PorDefecto(v, d) == IF v.tipo = "ausente" THEN Numero(d) ELSE v

\* JuegoService.obtenerTodos: limite = 100
LimitePorDefecto == 100

\* ReseniaService.obtenerTodas: limite = 50
LimiteResenias == 50

\* sanitizarConsulta: a limite outside 1..100 becomes 50
LimiteSaneado == 50

\* validarPaginacion, sanitizarConsulta: the largest page size
LimiteMax == 100

\* juegoController: const ordenamientoValido = [...]
ordenamientoValido == {"nombre", "anio", "fechaCreacion", "genero", "plataforma"}

\* reseniaController: const ordenamientoValido = [...]
ordenamientoValido_resenias == {"fechaCreacion", "calificacion", "autor"}

\* const { ordenarPor = 'fechaCreacion' } = filtros: "" is the absent parameter
ordenarPor(q) == IF q.ordenarPor = "" THEN "fechaCreacion" ELSE q.ordenarPor

\* the query without a sort
SinOrden == "$natural"

\* if (ordenamientoValido.includes(ordenarPor)) query = query.sort(...)
ordenarPor_controlador(q) ==
    IF ordenarPor(q) \in ordenamientoValido THEN ordenarPor(q) ELSE SinOrden

\* the value a document is sorted by: creation dates grow with the _id, a
\* genre by its name ("Puzzle" before "RPG"), hours, ratings and references
\* by their number; documents without the path, and all documents of a query
\* without a sort, tie
ClaveOrden(d, campo) ==
    IF campo = "fechaCreacion" THEN d._id
    ELSE IF campo \notin DOMAIN d THEN 0
    ELSE IF campo = "genero" THEN (IF d.genero = "Puzzle" THEN 1 ELSE 2)
    ELSE IF campo \in {"horasJugadas", "calificacion", "juegoId"} THEN d[campo]
    ELSE 0

\* d comes before e under sort({[campo]: orden === 'asc' ? 1 : -1}); among
\* documents with the same value the store is free, which desempate decides
Antes(d, e, campo, orden, desempate) ==
    IF ClaveOrden(d, campo) # ClaveOrden(e, campo)
    THEN IF orden = "asc" THEN ClaveOrden(d, campo) < ClaveOrden(e, campo)
         ELSE ClaveOrden(d, campo) > ClaveOrden(e, campo)
    ELSE IF desempate = "asc" THEN d._id < e._id ELSE d._id > e._id

RECURSIVE Insertar(_, _, _, _, _)
\* the sorted list with d put in its place
Insertar(lista, d, campo, orden, desempate) ==
    IF lista = <<>> THEN <<d>>
    ELSE IF Antes(d, Head(lista), campo, orden, desempate) THEN <<d>> \o lista
    ELSE <<Head(lista)>> \o Insertar(Tail(lista), d, campo, orden, desempate)

RECURSIVE Ordenar(_, _, _, _)
\* the documents of D in the order of the sort
Ordenar(D, campo, orden, desempate) ==
    IF D = {} THEN <<>>
    ELSE LET m == CHOOSE d \in D : TRUE
         IN  Insertar(Ordenar(D \ {m}, campo, orden, desempate), m,
                      campo, orden, desempate)

\* .limit(limit).skip(skip) of a sorted result; limit(0) is no limit
Cortar(lista, skip, limit) ==
    LET hasta == IF limit = 0 \/ skip + limit > Len(lista) THEN Len(lista)
                 ELSE skip + limit
    IN  SubSeq(lista, skip + 1, hasta)

\* Math.ceil(a / b) for b > 0
Techo(a, b) == (a + b - 1) \div b

\* the ways the store can break the ties of a sort
Desempates == {"asc", "desc"}

-----------------------------------------------------------------------------
(* Listings: the handlers.  A handler has several outcomes where the store  *)
(* is free: the order of documents that tie in the sort, and what a skip or *)
(* a limit that is NaN does (the query fails, or NaN counts as absent).     *)

\* the number a parameter holds, NaN shown as the text "NaN"
Mostrar(v) == IF EsNaN(v) THEN "NaN" ELSE v.n

\* find().sort().limit(limit).skip(skip): the results the store can give
Consultar(D, campo, orden, skip, limit) ==
    {Cortar(Ordenar(D, campo, orden, d), skip, limit) : d \in Desempates}

\* the page a listing of juegos answers with; consulta is what went to the store
PaginaJuegos(docs, limit, skip, pagina, limite, total) ==
    [tipo |-> "pagina",
     juegos |-> [i \in DOMAIN docs |-> transformarAFrontend(docs[i])],
     paginaActual |-> Mostrar(pagina),
     totalPaginas |-> IF EsNaN(limite) THEN "NaN" ELSE Techo(total, limite.n),
     totalJuegos |-> total,
     juegosPorPagina |-> Mostrar(limite),
     consulta |-> [limit |-> limit, skip |-> skip]]

\* JuegoService.obtenerTodos
JuegoService_obtenerTodos(J, q) ==
    LET limite == PorDefecto(q.limite, LimitePorDefecto)
        pagina == PorDefecto(q.pagina, 1)
        campo == ordenarPor(q)
        falla == Salida(J, Envolver(ErrorDe("MongoServerError", "Internal")), SinCuerpo)
    IN  IF EsNaN(limite) \/ EsNaN(pagina)
        THEN {falla} \cup
             {Salida(J, SinError,
                     PaginaJuegos(docs, IF EsNaN(limite) THEN 0 ELSE limite.n, 0,
                                  pagina, limite, Cardinality(J))) :
                docs \in Consultar(J, campo, q.orden, 0,
                                   IF EsNaN(limite) THEN 0 ELSE limite.n)}
        ELSE IF (pagina.n - 1) * limite.n < 0
        THEN {falla}
        ELSE {Salida(J, SinError,
                     PaginaJuegos(docs, limite.n, (pagina.n - 1) * limite.n,
                                  pagina, limite, Cardinality(J))) :
                docs \in Consultar(J, campo, q.orden,
                                   (pagina.n - 1) * limite.n, limite.n)}

\* controller v2 obtenerTodosLosJuegos: the bare list when no page is asked for
obtenerTodosLosJuegos_servicio(J, q) ==
    {IF s.err = SinError /\ q.pagina.tipo = "ausente"
     THEN Salida(J, SinError, [tipo |-> "lista", juegos |-> s.body.juegos,
                               consulta |-> s.body.consulta])
     ELSE s : s \in JuegoService_obtenerTodos(J, q)}

\* controller v1 obtenerTodosLosJuegos: no page, the limit as given, a sort
\* only on a field of ordenamientoValido
obtenerTodosLosJuegos(J, q) ==
    LET campo == ordenarPor_controlador(q)
        limit == IF q.limite.tipo = "numero" /\ q.limite.n > 0 THEN q.limite.n ELSE 0
    IN  {Salida(J, SinError,
                [tipo |-> "lista",
                 juegos |-> [i \in DOMAIN docs |-> transformarAFrontend(docs[i])],
                 consulta |-> [limit |-> limit, skip |-> 0]]) :
           docs \in Consultar(J, campo, q.orden, 0, limit)}

\* utils/validation.js sanitizarConsulta: the limite of the sanitised query
\* (0: none)
sanitizarConsulta(q) ==
    IF q.limite.tipo = "ausente" THEN 0
    ELSE IF q.limite.tipo = "numero" /\ q.limite.n > 0 /\ q.limite.n <= LimiteMax
    THEN q.limite.n
    ELSE LimiteSaneado

\* funciones/juegos/get.js obtenerTodosLosJuegos: no sort, no page
obtenerTodosLosJuegos_legacy(J, q) ==
    {Salida(J, SinError,
            [tipo |-> "lista",
             juegos |-> [i \in DOMAIN docs |-> transformarAFrontend_legacy(docs[i])],
             consulta |-> [limit |-> sanitizarConsulta(q), skip |-> 0]]) :
       docs \in {Cortar(Ordenar(J, "fechaCreacion", "asc", "asc"), 0,
                        sanitizarConsulta(q))}}

\* the page a listing of resenias answers with
PaginaResenias(J, docs, limit, skip, pagina, limite, total) ==
    [tipo |-> "pagina",
     resenias |-> [i \in DOMAIN docs |->
                      transformarReseniaAFrontend(docs[i], Populate(J, docs[i]))],
     paginaActual |-> Mostrar(pagina),
     totalPaginas |-> IF EsNaN(limite) THEN "NaN" ELSE Techo(total, limite.n),
     totalResenias |-> total,
     reseniasPorPagina |-> Mostrar(limite),
     consulta |-> [limit |-> limit, skip |-> skip]]

\* ReseniaService.obtenerTodas
ReseniaService_obtenerTodas(J, R, q) ==
    LET limite == PorDefecto(q.limite, LimiteResenias)
        pagina == PorDefecto(q.pagina, 1)
        falla == SalidaR(R, Envolver(ErrorDe("MongoServerError", "Internal")), SinCuerpo)
    IN  IF EsNaN(limite) \/ EsNaN(pagina)
        THEN {falla} \cup
             {SalidaR(R, SinError,
                      PaginaResenias(J, docs, IF EsNaN(limite) THEN 0 ELSE limite.n, 0,
                                     pagina, limite, Cardinality(R))) :
                docs \in Consultar(R, ordenarPor(q), q.orden, 0,
                                   IF EsNaN(limite) THEN 0 ELSE limite.n)}
        ELSE IF (pagina.n - 1) * limite.n < 0
        THEN {falla}
        ELSE {SalidaR(R, SinError,
                      PaginaResenias(J, docs, limite.n, (pagina.n - 1) * limite.n,
                                     pagina, limite, Cardinality(R))) :
                docs \in Consultar(R, ordenarPor(q), q.orden,
                                   (pagina.n - 1) * limite.n, limite.n)}

\* middleware validarPaginacion (exported; no route mounts it)
validarPaginacion(q) ==
    LET pagina == PorDefecto(q.pagina, 1)
        limite == PorDefecto(q.limite, 10)
    IN  IF EsNaN(pagina) \/ pagina.n < 1
        THEN crearError("InvalidArgument", 400)
        ELSE IF EsNaN(limite) \/ limite.n < 1 \/ limite.n > LimiteMax
        THEN crearError("InvalidArgument", 400)
        ELSE SinError

-----------------------------------------------------------------------------
(* Listings: the requests and the two specifications *)

\* items in a store that is listed
MaxT == 25

\* GET /: the listing of the service, reached through controller v2
ListarJuegosServicio(Q, recordar) ==
    \E q \in Q :
        \E s \in obtenerTodosLosJuegos_servicio(juegos, q) :
            /\ res' = Respuesta("listarJuegos", "servicio", IdVacio, q, s)
            /\ resPrevio' = IF recordar THEN res ELSE resPrevio
            /\ UNCHANGED <<enCurso, panel, cupo, reloj, fechas, juegos, resenias, sigJuego, sigResenia>>

\* GET /: controller v1
ListarJuegosControlador(Q) ==
    \E q \in Q :
        \E s \in obtenerTodosLosJuegos(juegos, q) :
            /\ res' = Respuesta("listarJuegos", "controlador", IdVacio, q, s)
            /\ UNCHANGED <<enCurso, panel, cupo, reloj, fechas, juegos, resenias, sigJuego, sigResenia, resPrevio>>

\* GET /api/juegos of the legacy application
ListarJuegosLegacy(Q) ==
    \E q \in Q :
        \E s \in obtenerTodosLosJuegos_legacy(juegos, q) :
            /\ res' = Respuesta("listarJuegos", "legacy", IdVacio, q, s)
            /\ UNCHANGED <<enCurso, panel, cupo, reloj, fechas, juegos, resenias, sigJuego, sigResenia, resPrevio>>

\* ReseniaService.obtenerTodas
ListarReseniasServicio(Q) ==
    \E q \in Q :
        \E s \in ReseniaService_obtenerTodas(juegos, resenias, q) :
            /\ res' = Respuesta("listarResenias", "servicio", IdVacio, q, s)
            /\ UNCHANGED <<enCurso, panel, cupo, reloj, fechas, juegos, resenias, sigJuego, sigResenia, resPrevio>>

\* the sizes of the stores that are listed: empty, one item, a full page of
\* ten, one more than a page, and the largest
Totales == {0, 1, 10, 11, MaxT}

\* a store of up to MaxT items of alternating genres, the first ones reviewed
InitListado ==
    /\ \E n \in Totales :
          /\ juegos = {JuegoEst(i, IF i % 2 = 0 THEN "RPG" ELSE "Puzzle", "PC", FALSE) :
                          i \in 1..n}
          /\ resenias = {NuevaResenia(i, [CuerpoResenia EXCEPT !.juegoId = i]) :
                            i \in 1..(IF n < MaxResenias THEN n ELSE MaxResenias)}
    /\ sigJuego = Cardinality(juegos) + 1
    /\ sigResenia = Cardinality(resenias) + 1
    /\ res = SinRespuesta
    /\ resPrevio = SinRespuesta
    /\ reloj = 0
    /\ panel = SinPanel
    /\ enCurso = SinCurso
    /\ cupo = MaxResenias
    /\ fechas = SinFechas

\* well-formed requests for a page
ConsultasListado ==
    [pagina : {Numero(1), Numero(2), Numero(3)},
     limite : {Ausente, Numero(10)},
     ordenarPor : {"", "genero"},
     orden : {"asc", "desc"}]

\* pages asked for one after another of a store that does not change
NextListado ==
    \/ ListarJuegosServicio(ConsultasListado, TRUE)

SpecListado == InitListado /\ [][NextListado]_vars

\* requests whose page or size is absent, no number, or out of range
ConsultasPaginacion ==
    [pagina : {Ausente, Texto, Numero(0), Numero(1), Numero(2)},
     limite : {Ausente, Texto, Numero(10), Numero(LimiteMax + 1)},
     ordenarPor : {""},
     orden : {"desc"}]

NextPaginacion ==
    \/ ListarJuegosServicio(ConsultasPaginacion, FALSE)
    \/ ListarJuegosControlador(ConsultasPaginacion)
    \/ ListarJuegosLegacy(ConsultasPaginacion)
    \/ ListarReseniasServicio(ConsultasPaginacion)

SpecPaginacion == InitListado /\ [][NextPaginacion]_vars

-----------------------------------------------------------------------------
(* Time: updates of stored documents while the clock advances *)

\* instants the clock passes through in one behaviour
MaxReloj == 2

\* time passes between two requests
Tic ==
    /\ reloj < MaxReloj
    /\ reloj' = reloj + 1
    /\ UNCHANGED <<enCurso, panel, cupo, juegos, resenias, sigJuego, sigResenia, res, resPrevio, fechas>>

\* the bodies of the updates: the stored title, and another one
CuerposFechas == {CuerpoBase, [CuerpoBase EXCEPT !.nombre = <<"b">>]}

NextFechas ==
    \/ Tic
    \/ CrearJuegoServicio({CuerpoBase})
    \/ ActualizarJuegoServicio(CuerposFechas)
    \/ ActualizarJuegoControlador(CuerposFechas)
    \/ ActualizarJuegoLegacy(CuerposFechas)
    \/ CrearReseniaServicio({CuerpoResenia})
    \/ ActualizarReseniaServicio({CuerpoResenia})
    \/ ActualizarReseniaControlador({CuerpoResenia})
    \/ ActualizarReseniaLegacy({CuerpoResenia_legacy})

SpecFechas == Init /\ [][NextFechas]_vars

-----------------------------------------------------------------------------
(* Resenias and their authors *)

\* resenias the store has room for when a juego gets several of them
MaxAutores == 2

\* the bodies of POST /resenias: signed by "n" or by "m", unsigned, signed
\* with the anonymous default
CuerposAutores ==
    {[CuerpoResenia EXCEPT !.autor = a, !.juegoId = j] :
        a \in {<<"n">>, <<"m">>, <<>>, Anonimo}, j \in 1..MaxJuegos}

InitAutores ==
    /\ juegos = {}
    /\ resenias = {}
    /\ sigJuego = 1
    /\ sigResenia = 1
    /\ res = SinRespuesta
    /\ resPrevio = SinRespuesta
    /\ reloj = 0
    /\ panel = SinPanel
    /\ enCurso = SinCurso
    /\ fechas = SinFechas
    /\ cupo = MaxAutores

NextAutores ==
    \/ CrearJuegoServicio({CuerpoBase})
    \/ CrearReseniaServicio(CuerposAutores)
    \/ CrearReseniaControlador(CuerposAutores)

SpecAutores == InitAutores /\ [][NextAutores]_vars

-----------------------------------------------------------------------------
(* The mappers on any value.  A JavaScript value is a record tagged with   *)
(* its type; an object carries the function from its own keys to their     *)
(* values, an array its elements.  A call that throws yields Lanza.        *)

undefined == [t |-> "undefined"]
null == [t |-> "null"]
NaN == [t |-> "NaN"]
Num(n) == [t |-> "number", n |-> n]
Str(s) == [t |-> "string", s |-> s]
Bool(b) == [t |-> "boolean", b |-> b]
\* a Date object of the instant n
Fecha(n) == [t |-> "date", n |-> n]
\* a mongoose ObjectId
Oid(n) == [t |-> "objectid", n |-> n]
Obj(f) == [t |-> "object", f |-> f]
Arr(e) == [t |-> "array", e |-> e]

\* the outcome of a call that throws
Lanza == [t |-> "throw"]

\* typeof v
Typeof(v) ==
    IF v.t \in {"null", "date", "objectid", "object", "array"} THEN "object"
    ELSE IF v.t = "NaN" THEN "number"
    ELSE v.t

\* the truthiness of v: if (v), !v, v ? a : b
Truthy(v) ==
    CASE v.t \in {"undefined", "null", "NaN"} -> FALSE
      [] v.t = "number" -> v.n # 0
      [] v.t = "string" -> v.s # <<>>
      [] v.t = "boolean" -> v.b
      [] OTHER -> TRUE

\* a || b
O(a, b) == IF Truthy(a) THEN a ELSE b

\* Boolean(v)
Boolean(v) == Bool(Truthy(v))

\* v.k of a value that is neither undefined nor null; an ObjectId answers
\* _id with itself
Get(v, k) ==
    IF v.t = "object" THEN (IF k \in DOMAIN v.f THEN v.f[k] ELSE undefined)
    ELSE IF v.t = "objectid" /\ k = "_id" THEN v
    ELSE undefined

\* the decimal digits
Cifra == [c \in {"0", "1", "2", "3", "4", "5", "6", "7", "8", "9"} |->
             CASE c = "0" -> 0 [] c = "1" -> 1 [] c = "2" -> 2 [] c = "3" -> 3
               [] c = "4" -> 4 [] c = "5" -> 5 [] c = "6" -> 6 [] c = "7" -> 7
               [] c = "8" -> 8 [] c = "9" -> 9]

RECURSIVE ValorDe(_)
\* the number a string of digits denotes
ValorDe(s) ==
    IF s = <<>> THEN 0
    ELSE 10 * ValorDe(SubSeq(s, 1, Len(s) - 1)) + Cifra[s[Len(s)]]

RECURSIVE Cifras(_)
\* String(n) of a natural number
Cifras(n) ==
    LET c == CHOOSE d \in DOMAIN Cifra : Cifra[d] = n % 10
    IN  IF n < 10 THEN <<c>> ELSE Append(Cifras(n \div 10), c)

\* Number(v) of a value that is no array
Number(v) ==
    CASE v.t \in {"number", "NaN"} -> v
      [] v.t = "string" ->
            IF Trim(v.s) = <<>> THEN Num(0)
            ELSE IF \A i \in 1..Len(Trim(v.s)) : Trim(v.s)[i] \in DOMAIN Cifra
                 THEN Num(ValorDe(Trim(v.s)))
                 ELSE NaN
      [] v.t = "boolean" -> Num(IF v.b THEN 1 ELSE 0)
      [] v.t = "null" -> Num(0)
      [] v.t = "date" -> Num(v.n)
      [] v.t \in {"undefined", "object", "objectid"} -> NaN

\* v.toString() of a value that is neither undefined nor null nor an array
toString(v) ==
    CASE v.t = "string" -> v
      [] v.t = "number" -> Str(Cifras(v.n))
      [] v.t = "NaN" -> Str(<<"N", "a", "N">>)
      [] v.t = "boolean" -> Str(IF v.b THEN <<"t", "r", "u", "e">>
                                ELSE <<"f", "a", "l", "s", "e">>)
      [] v.t = "objectid" -> Str(<<"#">> \o Cifras(v.n))
      [] v.t = "date" -> Str(<<"D">> \o Cifras(v.n))
      [] v.t = "object" -> Str(<<"[", "o", "b", "j", "e", "c", "t", "]">>)

\* new Date(v) is a valid date
FechaValida(v) ==
    CASE v.t \in {"date", "number", "boolean", "null"} -> TRUE
      [] v.t = "string" ->
            v.s # <<>> /\ \A i \in 1..Len(v.s) : v.s[i] \in DOMAIN Cifra
      [] OTHER -> FALSE

\* new Date(v).toISOString() of a valid date: the instant of a Date or of a
\* number of milliseconds, the start of the year a string of digits names
Iso(v) ==
    CASE v.t \in {"date", "number"} -> Str(<<"T">> \o Cifras(v.n))
      [] v.t = "string" -> Str(<<"T", "a">> \o v.s)
      [] v.t = "boolean" -> Str(<<"T">> \o Cifras(IF v.b THEN 1 ELSE 0))
      [] v.t = "null" -> Str(<<"T", "0">>)

\* v ? new Date(v).toISOString() : null, which throws RangeError
FechaIso(v) ==
    IF ~Truthy(v) THEN null
    ELSE IF FechaValida(v) THEN Iso(v)
    ELSE Lanza

\* the entries of f a mapper keeps: the required keys, and the others unless
\* their value is one of vacios
Limpiar(f, requeridas, vacios) ==
    [k \in {c \in DOMAIN f : c \in requeridas \/ f[c] \notin vacios} |-> f[k]]

\* 'Anónimo', 'Normal'
AnonimoJs == Str(Anonimo)
NormalJs == Str(<<"N", "o", "r", "m", "a", "l">>)

\* transformarABackend that stores every juego as not completed
transformarABackend_sinCompletado(v) ==
    IF ~Truthy(v) \/ Typeof(v) # "object" THEN Lanza
    ELSE Obj(Limpiar(
           [nombre |-> Get(v, "nombre"),
            anio |-> Get(v, "anio"),
            imagen |-> O(Get(v, "imagen"), Str(<<>>)),
            resena |-> O(Get(v, "resena"), Str(<<>>)),
            genero |-> Get(v, "genero"),
            plataforma |-> Get(v, "plataforma"),
            tienda |-> O(Get(v, "tienda"), Str(<<>>)),
            desarrollador |-> O(Get(v, "desarrollador"), Str(<<>>)),
            completado |-> Bool(FALSE),
            horasJugadas |-> IF Get(v, "horasJugadas") # undefined
                             THEN O(Number(Get(v, "horasJugadas")), Num(0))
                             ELSE Num(0)],
           {"nombre", "genero", "plataforma", "anio"}, {undefined, null}))

\* services/index.js transformarABackend
transformarABackend_valor(v) ==
    IF ~Truthy(v) \/ Typeof(v) # "object" THEN Lanza
    ELSE Obj(Limpiar(
           [nombre |-> Get(v, "nombre"),
            anio |-> Get(v, "anio"),
            imagen |-> O(Get(v, "imagen"), Str(<<>>)),
            resena |-> O(Get(v, "resena"), Str(<<>>)),
            genero |-> Get(v, "genero"),
            plataforma |-> Get(v, "plataforma"),
            tienda |-> O(Get(v, "tienda"), Str(<<>>)),
            desarrollador |-> O(Get(v, "desarrollador"), Str(<<>>)),
            completado |-> IF Get(v, "completado") # undefined
                           THEN Boolean(Get(v, "completado")) ELSE Bool(FALSE),
            horasJugadas |-> IF Get(v, "horasJugadas") # undefined
                             THEN O(Number(Get(v, "horasJugadas")), Num(0))
                             ELSE Num(0)],
           {"nombre", "genero", "plataforma", "anio"}, {undefined, null}))

\* services/index.js transformarAFrontend
transformarAFrontend_valor(v) ==
    IF ~Truthy(v) THEN null
    ELSE IF Lanza \in {FechaIso(Get(v, "fechaCreacion")),
                       FechaIso(Get(v, "fechaActualizacion"))}
    THEN null
    ELSE Obj([id |-> IF Truthy(Get(v, "_id")) THEN toString(Get(v, "_id"))
                     ELSE Str(<<>>),
              nombre |-> O(O(Get(v, "nombre"), Get(v, "titulo")), Str(<<>>)),
              anio |-> O(O(Get(v, "anio"), Get(v, "anioLanzamiento")),
                         Num(AnioActual)),
              imagen |-> O(O(Get(v, "imagen"), Get(v, "imagenPortada")), Str(<<>>)),
              resena |-> O(O(Get(v, "resena"), Get(v, "descripcion")), Str(<<>>)),
              genero |-> O(Get(v, "genero"), Str(<<>>)),
              plataforma |-> O(Get(v, "plataforma"), Str(<<>>)),
              tienda |-> O(Get(v, "tienda"), Str(<<>>)),
              desarrollador |-> O(Get(v, "desarrollador"), Str(<<>>)),
              completado |-> Boolean(Get(v, "completado")),
              horasJugadas |-> O(Number(Get(v, "horasJugadas")), Num(0)),
              fechaCreacion |-> FechaIso(Get(v, "fechaCreacion")),
              fechaActualizacion |-> FechaIso(Get(v, "fechaActualizacion"))])

\* .filter(juego => juego !== null)
NoNulo(v) == v # null

\* services/index.js transformarArrayAFrontend
transformarArrayAFrontend_valor(v) ==
    IF v.t # "array" THEN Arr(<<>>)
    ELSE Arr(SelectSeq([i \in 1..Len(v.e) |-> transformarAFrontend_valor(v.e[i])],
                       NoNulo))

\* services/index.js transformarReseniaABackend; its parameter defaults to {}
transformarReseniaABackend_valor(v) ==
    LET r == IF v = undefined THEN Obj(<<>>) ELSE v
    IN  IF ~Truthy(r) \/ Typeof(r) # "object" THEN Lanza
        ELSE Obj(Limpiar(
               [juegoId |-> Get(r, "juegoId"),
                contenido |-> O(O(Get(r, "contenido"), Get(r, "texto")),
                                Get(r, "textoResena")),
                calificacion |-> O(Get(r, "calificacion"), Get(r, "puntuacion")),
                autor |-> O(Get(r, "autor"), AnonimoJs),
                dificultad |-> O(Get(r, "dificultad"), NormalJs),
                recomendaria |-> IF Get(r, "recomendaria") # undefined
                                 THEN Boolean(Get(r, "recomendaria"))
                                 ELSE Bool(TRUE),
                horasJugadas |-> IF Truthy(Get(r, "horasJugadas"))
                                 THEN Number(Get(r, "horasJugadas")) ELSE Num(0)],
               {}, {undefined, null, Str(<<>>)}))

\* the keys a populated juegoId adds to the resenia
JuegoPoblado(jid) ==
    IF Truthy(jid) /\ Typeof(jid) = "object" /\ Truthy(Get(jid, "_id"))
    THEN [juegoId |-> toString(Get(jid, "_id")),
          juegoNombre |-> O(Get(jid, "nombre"), Get(jid, "titulo")),
          juegoGenero |-> Get(jid, "genero")]
    ELSE [juegoId |-> IF Truthy(jid) THEN toString(jid) ELSE Str(<<>>)]

\* services/index.js transformarReseniaAFrontend
transformarReseniaAFrontend_valor(v) ==
    IF ~Truthy(v) THEN null
    ELSE IF Lanza \in {FechaIso(Get(v, "fechaCreacion")),
                       FechaIso(Get(v, "fechaActualizacion"))}
    THEN null
    ELSE Obj(JuegoPoblado(Get(v, "juegoId")) @@
             [id |-> IF Truthy(Get(v, "_id")) THEN toString(Get(v, "_id"))
                     ELSE Str(<<>>),
              contenido |-> O(O(Get(v, "contenido"), Get(v, "textoResena")),
                              Str(<<>>)),
              calificacion |-> O(Number(O(Get(v, "calificacion"),
                                          Get(v, "puntuacion"))), Num(1)),
              autor |-> O(Get(v, "autor"), AnonimoJs),
              dificultad |-> O(Get(v, "dificultad"), NormalJs),
              recomendaria |-> Boolean(Get(v, "recomendaria")),
              horasJugadas |-> O(Number(Get(v, "horasJugadas")), Num(0)),
              fechaCreacion |-> FechaIso(Get(v, "fechaCreacion")),
              fechaActualizacion |-> FechaIso(Get(v, "fechaActualizacion"))])

\* utils/transformer.js transformarAFrontend: _id.toString() of a record
\* without _id and an invalid date throw
transformarAFrontend_legacy_valor(v) ==
    IF ~Truthy(v) THEN null
    ELSE IF Get(v, "_id") \in {undefined, null} THEN Lanza
    ELSE IF FechaIso(Get(v, "fechaCreacion")) = Lanza THEN Lanza
    ELSE Obj([id |-> toString(Get(v, "_id")),
              nombre |-> Get(v, "titulo"),
              anio |-> Get(v, "anioLanzamiento"),
              imagen |-> O(Get(v, "imagenPortada"), Str(<<>>)),
              resena |-> O(Get(v, "descripcion"), Str(<<>>)),
              genero |-> Get(v, "genero"),
              plataforma |-> Get(v, "plataforma"),
              tienda |-> O(Get(v, "tienda"), Str(<<>>)),
              desarrollador |-> O(Get(v, "desarrollador"), Str(<<>>)),
              completado |-> Boolean(Get(v, "completado")),
              horasJugadas |-> O(Get(v, "horasJugadas"), Num(0)),
              fechaCreacion |-> FechaIso(Get(v, "fechaCreacion"))])

\* utils/transformer.js transformarArrayAFrontend: .map(...).filter(Boolean)
transformarArrayAFrontend_legacy_valor(v) ==
    IF v.t # "array" THEN Arr(<<>>)
    ELSE IF \E i \in 1..Len(v.e) : transformarAFrontend_legacy_valor(v.e[i]) = Lanza
    THEN Lanza
    ELSE Arr(SelectSeq([i \in 1..Len(v.e) |->
                           transformarAFrontend_legacy_valor(v.e[i])], NoNulo))

\* utils/transformer.js transformarReseniaABackend; its parameter defaults to
\* {} and null.juegoId throws
transformarReseniaABackend_legacy_valor(v) ==
    LET r == IF v = undefined THEN Obj(<<>>) ELSE v
    IN  IF r = null THEN Lanza
        ELSE Obj(Limpiar(
               [juegoId |-> Get(r, "juegoId"),
                puntuacion |-> IF Get(r, "puntuacion") \notin {undefined, null}
                               THEN Number(Get(r, "puntuacion")) ELSE undefined,
                textoResena |-> IF Typeof(Get(r, "texto")) = "string"
                                THEN Str(Trim(Get(r, "texto").s)) ELSE undefined,
                horasJugadas |-> IF Get(r, "horasJugadas") \notin {undefined, null}
                                 THEN Number(Get(r, "horasJugadas")) ELSE undefined,
                dificultad |-> Get(r, "dificultad"),
                recomendaria |-> IF Get(r, "recomendaria") # undefined
                                 THEN Boolean(Get(r, "recomendaria"))
                                 ELSE undefined],
               {}, {undefined}))

-----------------------------------------------------------------------------
(* The mappers: the values they are applied to *)

\* f without the key k, f with the key k bound to v
SinClave(f, k) == [c \in DOMAIN f \ {k} |-> f[c]]
ConClave(f, k, v) == [c \in DOMAIN f \cup {k} |-> IF c = k THEN v ELSE f[c]]

\* a stored juego of the canonical schema
DocJuego ==
    [_id |-> Oid(1), nombre |-> Str(<<"a">>), anio |-> Num(2020),
     imagen |-> Str(<<"i">>), resena |-> Str(<<"r">>), genero |-> Str(<<"G">>),
     plataforma |-> Str(<<"P">>), tienda |-> Str(<<"t">>),
     desarrollador |-> Str(<<"d">>), completado |-> Bool(TRUE),
     horasJugadas |-> Num(5), fechaCreacion |-> Fecha(1),
     fechaActualizacion |-> Fecha(2)]

\* a stored resenia of the canonical schema
DocResenia ==
    [_id |-> Oid(7), juegoId |-> Oid(1), contenido |-> Str(<<"c">>),
     calificacion |-> Num(4), autor |-> Str(<<"n">>), dificultad |-> Str(<<"D">>),
     recomendaria |-> Bool(FALSE), horasJugadas |-> Num(3),
     fechaCreacion |-> Fecha(1), fechaActualizacion |-> Fecha(2)]

\* canonical field, legacy alias, an empty value of the field, a value of the
\* alias
AliasJuego ==
    {<<"nombre", "titulo", Str(<<>>), Str(<<"b">>)>>,
     <<"anio", "anioLanzamiento", Num(0), Num(1999)>>,
     <<"imagen", "imagenPortada", Str(<<>>), Str(<<"p">>)>>,
     <<"resena", "descripcion", Str(<<>>), Str(<<"s">>)>>}

AliasResenia ==
    {<<"contenido", "textoResena", Str(<<>>), Str(<<"e">>)>>,
     <<"calificacion", "puntuacion", Num(0), Num(2)>>}

\* the records got from d by giving one canonical field its stored value, an
\* empty value or none, and its alias a value or none
ConAlias(d, A) ==
    {IF alias THEN ConClave(c, p[2], p[4]) ELSE c :
        alias \in BOOLEAN,
        c \in UNION {{d, ConClave(d, p[1], p[3]), SinClave(d, p[1])} : p \in A},
        p \in A}

\* values that are no object
NoObjetos ==
    {undefined, null, NaN, Num(0), Num(5), Str(<<>>), Str(<<"x">>),
     Bool(TRUE), Bool(FALSE)}

\* stored juegos: of either schema or of both, without _id, with a date that
\* is none, empty
DocsJuego ==
    {Obj(f) : f \in ConAlias(DocJuego, AliasJuego)}
    \cup {Obj(SinClave(DocJuego, "_id")),
          Obj(ConClave(DocJuego, "fechaCreacion", Str(<<"x">>))),
          Obj(ConClave(DocJuego, "completado", Bool(FALSE))),
          Obj(<<>>)}

\* stored resenias: of either schema or of both, with the juego populated,
\* without _id, with a date that is none, empty
DocsResenia ==
    {Obj(f) : f \in ConAlias(DocResenia, AliasResenia)}
    \cup {Obj(ConClave(DocResenia, "juegoId",
                       Obj([_id |-> Oid(1), nombre |-> Str(<<"a">>),
                            genero |-> Str(<<"G">>)]))),
          Obj(SinClave(DocResenia, "juegoId")),
          Obj(SinClave(DocResenia, "_id")),
          Obj(ConClave(DocResenia, "fechaCreacion", Str(<<"x">>))),
          Obj(ConClave(DocResenia, "recomendaria", Bool(TRUE))),
          Obj(<<>>)}

\* what a listing hands to the array mappers
ListasJuego ==
    LET E == {Obj(DocJuego), Obj(ConClave(DocJuego, "_id", Oid(2))),
              Obj(SinClave(DocJuego, "_id")),
              Obj(ConClave(DocJuego, "fechaCreacion", Str(<<"x">>))),
              null, Num(5)}
    IN  {Arr(<<>>), undefined, Obj(DocJuego)}
        \cup {Arr(<<a>>) : a \in E}
        \cup {Arr(<<a, b>>) : a \in E, b \in E}

\* the canonical records of the stored ones
CanonicosJuego == {transformarAFrontend_valor(d) : d \in DocsJuego} \ {null}
CanonicosResenia == {transformarReseniaAFrontend_valor(d) : d \in DocsResenia} \ {null}

\* payloads of juegos: canonical records, records that lack fields, values
\* that are no object
CargasJuego ==
    CanonicosJuego
    \cup {Obj(<<>>), Obj([nombre |-> Str(<<"a">>)]),
          Obj([nombre |-> Str(<<"a">>), genero |-> Str(<<"G">>),
               plataforma |-> Str(<<"P">>), anio |-> Num(2020),
               imagen |-> null, horasJugadas |-> Str(<<"5">>)])}
    \cup NoObjetos

\* payloads of resenias
CargasResenia ==
    CanonicosResenia
    \cup {Obj(<<>>), Obj([contenido |-> Str(<<"c">>)]),
          Obj([juegoId |-> Str(<<"#", "1">>), texto |-> Str(<<" ", "c">>),
               puntuacion |-> Num(4)]),
          Obj([juegoId |-> Str(<<"#", "1">>), contenido |-> Str(<<"c">>),
               calificacion |-> Num(4), recomendaria |-> Bool(FALSE)])}
    \cup NoObjetos

\* the result of a mapper
Mapeo(op, ruta, v, r) == [op |-> op, ruta |-> ruta, entrada |-> v, salida |-> r]

TransformarAFrontend ==
    \E v \in DocsJuego \cup NoObjetos :
        /\ res' = Mapeo("transformarAFrontend", "servicio", v,
                        transformarAFrontend_valor(v))
        /\ UNCHANGED <<enCurso, panel, cupo, reloj, fechas, juegos, resenias, sigJuego, sigResenia,
                       resPrevio>>

TransformarArrayAFrontend ==
    \E v \in ListasJuego :
        /\ res' = Mapeo("transformarArrayAFrontend", "servicio", v,
                        transformarArrayAFrontend_valor(v))
        /\ UNCHANGED <<enCurso, panel, cupo, reloj, fechas, juegos, resenias, sigJuego, sigResenia,
                       resPrevio>>

TransformarABackend ==
    \E v \in CargasJuego :
        /\ res' = Mapeo("transformarABackend", "servicio", v,
                        transformarABackend_valor(v))
        /\ UNCHANGED <<enCurso, panel, cupo, reloj, fechas, juegos, resenias, sigJuego, sigResenia,
                       resPrevio>>

TransformarReseniaAFrontend ==
    \E v \in DocsResenia \cup NoObjetos :
        /\ res' = Mapeo("transformarReseniaAFrontend", "servicio", v,
                        transformarReseniaAFrontend_valor(v))
        /\ UNCHANGED <<enCurso, panel, cupo, reloj, fechas, juegos, resenias, sigJuego, sigResenia,
                       resPrevio>>

TransformarReseniaABackend ==
    \E v \in CargasResenia :
        /\ res' = Mapeo("transformarReseniaABackend", "servicio", v,
                        transformarReseniaABackend_valor(v))
        /\ UNCHANGED <<enCurso, panel, cupo, reloj, fechas, juegos, resenias, sigJuego, sigResenia,
                       resPrevio>>

TransformarAFrontendLegacy ==
    \E v \in DocsJuego \cup NoObjetos :
        /\ res' = Mapeo("transformarAFrontend", "legacy", v,
                        transformarAFrontend_legacy_valor(v))
        /\ UNCHANGED <<enCurso, panel, cupo, reloj, fechas, juegos, resenias, sigJuego, sigResenia,
                       resPrevio>>

TransformarArrayAFrontendLegacy ==
    \E v \in ListasJuego :
        /\ res' = Mapeo("transformarArrayAFrontend", "legacy", v,
                        transformarArrayAFrontend_legacy_valor(v))
        /\ UNCHANGED <<enCurso, panel, cupo, reloj, fechas, juegos, resenias, sigJuego, sigResenia,
                       resPrevio>>

TransformarReseniaABackendLegacy ==
    \E v \in CargasResenia :
        /\ res' = Mapeo("transformarReseniaABackend", "legacy", v,
                        transformarReseniaABackend_legacy_valor(v))
        /\ UNCHANGED <<enCurso, panel, cupo, reloj, fechas, juegos, resenias, sigJuego, sigResenia,
                       resPrevio>>

NextMapeo ==
    \/ TransformarAFrontend
    \/ TransformarArrayAFrontend
    \/ TransformarABackend
    \/ TransformarReseniaAFrontend
    \/ TransformarReseniaABackend
    \/ TransformarAFrontendLegacy
    \/ TransformarArrayAFrontendLegacy
    \/ TransformarReseniaABackendLegacy

SpecMapeo == Init /\ [][NextMapeo]_vars

-----------------------------------------------------------------------------
(* The dashboard: seven queries awaited together *)

\* a Promise.all that waits for every promise and is fulfilled whatever their
\* outcome
PromiseAll_todasLiquidadas(c) ==
    IF \E q \in DOMAIN c : c[q] = "pendiente" THEN "pendiente" ELSE "resuelto"

\* Promise.all over the state of its promises: rejected as soon as one is,
\* fulfilled when all are
PromiseAll(c) ==
    IF \E q \in DOMAIN c : c[q] = "error" THEN "rechazado"
    ELSE IF \A q \in DOMAIN c : c[q] = "ok" THEN "resuelto"
    ELSE "pendiente"

\* what a fulfilled query of the dashboard hands back
Resultado(c, q) == IF c[q] = "ok" THEN [de |-> q] ELSE [de |-> "undefined"]

\* the report obtenerDashboard returns
Informe(c) ==
    [tipo |-> "dashboard",
     resumen |-> <<Resultado(c, "obtenerEstadisticasJuegos"),
                   Resultado(c, "obtenerEstadisticasResenias")>>,
     distribuciones |-> [generos |-> Resultado(c, "obtenerDistribucionGeneros"),
                         plataformas |-> Resultado(c, "obtenerDistribucionPlataformas")],
     tendencias |-> Resultado(c, "obtenerTendenciasCreacion"),
     rankings |-> [masJugados |-> Resultado(c, "obtenerJuegosMasJugados"),
                   mejoresCalificados |-> Resultado(c, "obtenerMejoresCalificados")],
     version |-> "1.0"]

\* what obtenerDashboard has handed back once Promise.all is settled: the
\* report, or the error of the query q that failed, wrapped by the query and
\* by the dashboard
obtenerDashboard(c, q) ==
    IF PromiseAll(c) = "resuelto"
    THEN [err |-> SinError, body |-> Informe(c)]
    ELSE [err |-> Envolver(Envolver(ErrorDe("MongoError", q))), body |-> SinCuerpo]

\* obtenerDashboard is called: Promise.all starts the seven queries
LlamarDashboard ==
    /\ \A q \in ConsultasPanel : panel.consultas[q] # "pendiente"
    /\ panel' = [fase |-> "pendiente",
                 consultas |-> [q \in ConsultasPanel |-> "pendiente"]]
    /\ res' = [SinRespuesta EXCEPT !.op = "obtenerDashboard", !.ruta = "servicio",
                                   !.causa = "pendiente"]
    /\ UNCHANGED <<enCurso, cupo, reloj, fechas, juegos, resenias, sigJuego, sigResenia,
                   resPrevio>>

\* a query of the dashboard is fulfilled; the last one fulfils Promise.all
\* and the dashboard returns
ConsultaCumplida ==
    \E q \in ConsultasPanel :
        /\ panel.consultas[q] = "pendiente"
        /\ \E c \in {[panel.consultas EXCEPT ![q] = "ok"]} :
              /\ panel' = [fase |-> IF panel.fase = "pendiente" THEN PromiseAll(c)
                                    ELSE panel.fase,
                           consultas |-> c]
              /\ res' = IF panel.fase = "pendiente" /\ PromiseAll(c) # "pendiente"
                        THEN Respuesta("obtenerDashboard", "servicio", IdVacio,
                                       SinCuerpo, obtenerDashboard(c, q))
                        ELSE res
        /\ UNCHANGED <<enCurso, cupo, reloj, fechas, juegos, resenias, sigJuego, sigResenia,
                       resPrevio>>

\* a query of the dashboard fails; the first failure rejects Promise.all and
\* the dashboard throws
ConsultaFallida ==
    \E q \in ConsultasPanel :
        /\ panel.consultas[q] = "pendiente"
        /\ \E c \in {[panel.consultas EXCEPT ![q] = "error"]} :
              /\ panel' = [fase |-> IF panel.fase = "pendiente" THEN PromiseAll(c)
                                    ELSE panel.fase,
                           consultas |-> c]
              /\ res' = IF panel.fase = "pendiente" /\ PromiseAll(c) # "pendiente"
                        THEN Respuesta("obtenerDashboard", "servicio", IdVacio,
                                       SinCuerpo, obtenerDashboard(c, q))
                        ELSE res
        /\ UNCHANGED <<enCurso, cupo, reloj, fechas, juegos, resenias, sigJuego, sigResenia,
                       resPrevio>>

NextDashboard ==
    \/ LlamarDashboard
    \/ ConsultaCumplida
    \/ ConsultaFallida

SpecDashboard == Init /\ [][NextDashboard]_vars

-----------------------------------------------------------------------------
(* Rankings by hours played *)

\* obtenerJuegosMasJugados(limite = 10)
LimiteRanking == 10

\* JuegoService.obtenerEstadisticas: .limit(10)
TopJugados == 10

\* .select('nombre genero plataforma horasJugadas completado imagen').lean()
Seleccion(d) ==
    [_id |-> d._id, nombre |-> d.nombre, genero |-> d.genero,
     plataforma |-> d.plataforma, horasJugadas |-> d.horasJugadas,
     completado |-> d.completado]

\* obtenerJuegosMasJugados without the filter on the hours
obtenerJuegosMasJugados_sinFiltro(J, limite) ==
    {Salida(J, SinError,
            [tipo |-> "ranking",
             juegosMasJugados |-> [i \in DOMAIN docs |-> Seleccion(docs[i])]]) :
        docs \in Consultar(J, "horasJugadas", "desc", 0, limite)}

\* EstadisticasService.obtenerJuegosMasJugados: find({horasJugadas: {$gt: 0}})
\* .sort({horasJugadas: -1}).limit(limite)
obtenerJuegosMasJugados(J, limite) ==
    {Salida(J, SinError,
            [tipo |-> "ranking",
             juegosMasJugados |-> [i \in DOMAIN docs |-> Seleccion(docs[i])]]) :
        docs \in Consultar({j \in J : j.horasJugadas > 0}, "horasJugadas", "desc",
                           0, limite)}

RECURSIVE Suma(_, _)
\* $sum of a field over a set of documents
Suma(D, campo) ==
    IF D = {} THEN 0
    ELSE LET d == CHOOSE x \in D : TRUE IN d[campo] + Suma(D \ {d}, campo)

\* .select('nombre horasJugadas genero completado'): the other paths are
\* absent from the document
SeleccionTop(d) ==
    [d EXCEPT !.titulo = <<>>, !.anio = 0, !.anioLanzamiento = 0,
              !.plataforma = ""]

\* JuegoService.obtenerEstadisticas: the totals and the ten juegos with most
\* hours, in canonical form
JuegoService_obtenerEstadisticas(J) ==
    {Salida(J, SinError,
            [tipo |-> "estadisticas",
             general |-> [totalJuegos |-> Cardinality(J),
                          juegsCompletados |-> Cardinality({j \in J : j.completado}),
                          horasTotales |-> Suma(J, "horasJugadas")],
             juegosMasJugados |->
                 [i \in DOMAIN docs |-> transformarAFrontend(SeleccionTop(docs[i]))]]) :
        docs \in Consultar({j \in J : j.horasJugadas > 0}, "horasJugadas", "desc",
                           0, TopJugados)}

\* length of the rankings asked for
MaxTop == 2

ObtenerJuegosMasJugados ==
    \E n \in 1..MaxTop \cup {LimiteRanking} :
        \E s \in obtenerJuegosMasJugados(juegos, n) :
            /\ res' = Respuesta("obtenerJuegosMasJugados", "servicio", IdVacio,
                                [limite |-> n], s)
            /\ UNCHANGED <<enCurso, panel, cupo, reloj, fechas, juegos, resenias, sigJuego,
                           sigResenia, resPrevio>>

ObtenerEstadisticas ==
    \E s \in JuegoService_obtenerEstadisticas(juegos) :
        /\ res' = Respuesta("obtenerEstadisticas", "servicio", IdVacio,
                            [limite |-> TopJugados], s)
        /\ UNCHANGED <<enCurso, panel, cupo, reloj, fechas, juegos, resenias, sigJuego,
                       sigResenia, resPrevio>>

\* a stored juego with the given hours
JuegoHoras(id, h) ==
    NuevoJuego(id, [CuerpoBase EXCEPT !.nombre = Repetir("a", id),
                                      !.horasJugadas = h])

\* the stores of up to MaxEst juegos with 0, 5 or 10 hours each, and a store
\* of one juego more than a ranking of ten holds, every one with hours
InitRanking ==
    /\ \/ \E n \in 0..MaxEst :
             \E h \in [1..n -> {0, 5, 10}] :
                juegos = {JuegoHoras(i, h[i]) : i \in 1..n}
       \/ juegos = {JuegoHoras(i, 1 + (i % 3)) : i \in 1..(TopJugados + 1)}
    /\ sigJuego = Cardinality(juegos) + 1
    /\ resenias = {}
    /\ sigResenia = 1
    /\ res = SinRespuesta
    /\ resPrevio = SinRespuesta
    /\ reloj = 0
    /\ panel = SinPanel
    /\ enCurso = SinCurso
    /\ cupo = MaxResenias
    /\ fechas = SinFechas

NextRanking ==
    \/ ObtenerJuegosMasJugados
    \/ ObtenerEstadisticas

SpecRanking == InitRanking /\ [][NextRanking]_vars

-----------------------------------------------------------------------------
(* Resenias: deleting them, and the statistics of the resenias of a juego *)

\* ReseniaService.eliminar
ReseniaService_eliminar(R, id) ==
    IF BuscarResenia(R, id) = {}
    THEN SalidaR(R, Envolver(ErrorDe("Error", "NotFound")), SinCuerpo)
    ELSE LET r == CHOOSE x \in R : x._id = id
         IN  SalidaR(R \ {r}, SinError,
                     [tipo |-> "eliminada", id |-> r._id, juegoId |-> r.juegoId])

\* eliminarResenia of the controller
eliminarResenia(R, id) ==
    IF BuscarResenia(R, id) = {}
    THEN SalidaR(R, crearError("NotFound", 404), SinCuerpo)
    ELSE LET r == CHOOSE x \in R : x._id = id
         IN  SalidaR(R \ {r}, SinError,
                     [tipo |-> "eliminada", id |-> r._id, juegoId |-> r.juegoId])

\* funciones/resenias/delete.js eliminarResenia: it answers 404 by itself
eliminarResenia_legacy(R, id) ==
    IF BuscarResenia(R, id) = {}
    THEN SalidaR(R, crearError("NotFound", 404), SinCuerpo)
    ELSE LET r == CHOOSE x \in R : x._id = id
         IN  SalidaR(R \ {r}, SinError,
                     [tipo |-> "eliminada", id |-> r._id, puntuacion |-> r.puntuacion])

RECURSIVE MCD(_, _)
\* greatest common divisor
MCD(a, b) == IF b = 0 THEN a ELSE MCD(b, a % b)

\* the number s / n, kept exact as a fraction in lowest terms
Cociente(s, n) ==
    [t |-> "number", num |-> s \div MCD(s, n), den |-> n \div MCD(s, n)]

\* { $match: { juegoId } }, { $group: { _id: null, totalResenias: { $sum: 1 },
\* promedioCalificacion: { $avg: "$calificacion" }, calificacionMaxima:
\* { $max: "$calificacion" }, calificacionMinima: { $min: "$calificacion" } } }:
\* one result when a document matches, none otherwise; $sum: 1 counts every
\* document, $avg, $max and $min only see the documents that have the path
\* calificacion, and yield null when none has it
AgruparCalificaciones(R, juegoId) ==
    LET M == {r \in R : r.juegoId = juegoId}
        N == {r \in M : r.calificacion # 0}
    IN  IF M = {} THEN <<>>
        ELSE <<[totalResenias |-> Cardinality(M),
                promedioCalificacion |->
                    IF N = {} THEN null
                    ELSE Cociente(Suma(N, "calificacion"), Cardinality(N)),
                calificacionMaxima |->
                    IF N = {} THEN null
                    ELSE Num((CHOOSE r \in N :
                                 \A x \in N : x.calificacion <= r.calificacion).calificacion),
                calificacionMinima |->
                    IF N = {} THEN null
                    ELSE Num((CHOOSE r \in N :
                                 \A x \in N : x.calificacion >= r.calificacion).calificacion)]>>

\* estadisticas[0] || { totalResenias: 0, promedioCalificacion: 0, ... }
EstadisticasO(e) ==
    IF e # <<>> THEN e[1]
    ELSE [totalResenias |-> 0, promedioCalificacion |-> Num(0),
          calificacionMaxima |-> Num(0), calificacionMinima |-> Num(0)]

\* ReseniaService.obtenerEstadisticasJuego
ReseniaService_obtenerEstadisticasJuego(J, R, juegoId) ==
    IF BuscarJuego(J, juegoId) = {}
    THEN SalidaR(R, Envolver(ErrorDe("Error", "NotFound")), SinCuerpo)
    ELSE SalidaR(R, SinError,
                 [tipo |-> "estadisticasJuego", juego |-> juegoId,
                  estadisticas |-> EstadisticasO(AgruparCalificaciones(R, juegoId))])

\* obtenerEstadisticasJuego of the controller: the juego is not looked up
obtenerEstadisticasJuego(R, juegoId) ==
    SalidaR(R, SinError,
            [tipo |-> "estadisticasJuego", juego |-> juegoId,
             estadisticas |-> EstadisticasO(AgruparCalificaciones(R, juegoId))])

EliminarReseniaServicio ==
    \E id \in IdsResenia :
        \E s \in {ReseniaService_eliminar(resenias, id)} :
            /\ resenias' = s.resenias
            /\ res' = Respuesta("eliminarResenia", "servicio", id, SinCuerpo, s)
            /\ fechas' = Quitar(s, "resenias", id)
            /\ UNCHANGED <<enCurso, panel, cupo, reloj, juegos, sigJuego, sigResenia, resPrevio>>

EliminarReseniaControlador ==
    \E id \in IdsResenia :
        \E s \in {eliminarResenia(resenias, id)} :
            /\ resenias' = s.resenias
            /\ res' = Respuesta("eliminarResenia", "controlador", id, SinCuerpo, s)
            /\ fechas' = Quitar(s, "resenias", id)
            /\ UNCHANGED <<enCurso, panel, cupo, reloj, juegos, sigJuego, sigResenia, resPrevio>>

EliminarReseniaLegacy ==
    \E id \in IdsResenia :
        \E s \in {eliminarResenia_legacy(resenias, id)} :
            /\ resenias' = s.resenias
            /\ res' = Respuesta("eliminarResenia", "legacy", id, SinCuerpo, s)
            /\ fechas' = Quitar(s, "resenias", id)
            /\ UNCHANGED <<enCurso, panel, cupo, reloj, juegos, sigJuego, sigResenia, resPrevio>>

ObtenerEstadisticasJuegoServicio ==
    \E id \in IdsJuego :
        \E s \in {ReseniaService_obtenerEstadisticasJuego(juegos, resenias, id)} :
            /\ res' = Respuesta("obtenerEstadisticasJuego", "servicio", id, SinCuerpo, s)
            /\ UNCHANGED <<enCurso, panel, cupo, reloj, fechas, juegos, resenias, sigJuego,
                           sigResenia, resPrevio>>

ObtenerEstadisticasJuegoControlador ==
    \E id \in IdsJuego :
        \E s \in {obtenerEstadisticasJuego(resenias, id)} :
            /\ res' = Respuesta("obtenerEstadisticasJuego", "controlador", id,
                                SinCuerpo, s)
            /\ UNCHANGED <<enCurso, panel, cupo, reloj, fechas, juegos, resenias, sigJuego,
                           sigResenia, resPrevio>>

\* resenias stored in one behaviour of the statistics
MaxCalif == 2

\* the bodies of the canonical application: a resenia of each juego, rated 4 or 5
CuerposCalif ==
    {[CuerpoResenia EXCEPT !.juegoId = j, !.calificacion = Decimas(c)] :
        j \in 1..MaxJuegos, c \in {4, 5}}

\* the bodies of the earlier application: a resenia of juego 1, rated 4 or 5
CuerposCalif_legacy ==
    {[CuerpoResenia_legacy EXCEPT !.puntuacion = Decimas(c)] : c \in {4, 5}}

\* every juego is stored, no resenia is
InitCalificaciones ==
    /\ juegos = {JuegoHoras(i, 0) : i \in 1..MaxJuegos}
    /\ sigJuego = MaxJuegos + 1
    /\ resenias = {}
    /\ sigResenia = 1
    /\ res = SinRespuesta
    /\ resPrevio = SinRespuesta
    /\ reloj = 0
    /\ panel = SinPanel
    /\ enCurso = SinCurso
    /\ cupo = MaxCalif
    /\ fechas = SinFechas

NextCalificaciones ==
    \/ CrearReseniaServicio(CuerposCalif)
    \/ CrearReseniaControlador(CuerposCalif)
    \/ CrearReseniaLegacy(CuerposCalif_legacy)
    \/ ActualizarReseniaServicio(CuerposCalif)
    \/ ActualizarReseniaControlador(CuerposCalif)
    \/ ActualizarReseniaLegacy(CuerposCalif_legacy)
    \/ EliminarReseniaServicio
    \/ EliminarReseniaControlador
    \/ EliminarReseniaLegacy
    \/ ObtenerEstadisticasJuegoServicio
    \/ ObtenerEstadisticasJuegoControlador

SpecCalificaciones == InitCalificaciones /\ [][NextCalificaciones]_vars

-----------------------------------------------------------------------------
(* Concurrent requests: two creates of a juego                               *)
(* crear awaits Juego.findOne and then nuevoJuego.save(): the event loop     *)
(* runs the steps of other requests between the two.                         *)

\* the error a handler raises, as its route hands it to the error boundary:
\* the service rethrows it as a plain Error, the controller passes it on
ErrorEn(ruta, e) == IF ruta = "servicio" THEN Envolver(e) ELSE e

\* router.post("/", validarJuego, crearJuego) up to the answer of
\* await Juego.findOne({ nombre: new RegExp(`^${nombre}$`, 'i') }): the error
\* the request ends with, or SinError when it goes on to save
crear_findOne(J, ruta, body) ==
    IF validarJuego(body) # {} THEN crearError("ValidationFailed", 400)
    ELSE IF ~RegexValida(sanitizarJuego(body).nombre)
    THEN ErrorEn(ruta, ErrorDe("SyntaxError", "Internal"))
    ELSE IF BuscarPorNombre(J, sanitizarJuego(body).nombre, IdVacio) # {}
    THEN IF ruta = "servicio" THEN Envolver(ErrorDe("Error", "DuplicateEntity"))
         ELSE crearError("DuplicateEntity", 409)
    ELSE SinError

\* save() against a store with a unique index on nombre
crear_save_unico(J, nid, ruta, datos) ==
    IF ~juegoSchemaValido(datos)
    THEN Salida(J, ErrorEn(ruta, ErrorDe("ValidationError", "ValidationFailed")),
                SinCuerpo)
    ELSE IF \E j \in J : Minusculas(j.nombre) = Minusculas(Trim(datos.nombre))
    THEN Salida(J, ErrorEn(ruta, ErrorDe("MongoServerError", "DuplicateEntity")),
                SinCuerpo)
    ELSE Salida(J \cup {NuevoJuego(nid, datos)}, SinError,
                transformarAFrontend(NuevoJuego(nid, datos)))

\* await nuevoJuego.save() and the answer: the schema validates the document
\* and the store inserts it; juegoSchema declares no unique index on nombre
crear_save(J, nid, ruta, datos) ==
    IF ~juegoSchemaValido(datos)
    THEN Salida(J, ErrorEn(ruta, ErrorDe("ValidationError", "ValidationFailed")),
                SinCuerpo)
    ELSE Salida(J \cup {NuevoJuego(nid, datos)}, SinError,
                transformarAFrontend(NuevoJuego(nid, datos)))

\* a request arrives and runs up to the answer of findOne
CrearJuego_findOne(C) ==
    \E p \in Cursos, ruta \in {"servicio", "controlador"}, body \in C :
        \E e \in {crear_findOne(juegos, ruta, body)} :
            /\ enCurso[p] = Libre
            /\ enCurso' = [enCurso EXCEPT ![p] =
                              IF e = SinError
                              THEN [op |-> "crearJuego", fase |-> "verificado",
                                    ruta |-> ruta, datos |-> sanitizarJuego(body)]
                              ELSE Libre]
            /\ res' = IF e = SinError THEN res
                      ELSE Respuesta("crearJuego", ruta, IdVacio, body,
                                     Salida(juegos, e, SinCuerpo))
            /\ UNCHANGED <<panel, cupo, reloj, fechas, juegos, resenias, sigJuego,
                           sigResenia, resPrevio>>

\* a request that passed the check saves and answers
CrearJuego_save ==
    \E p \in Cursos :
        /\ enCurso[p].op = "crearJuego"
        /\ enCurso[p].fase = "verificado"
        /\ \E s \in {crear_save(juegos, sigJuego, enCurso[p].ruta, enCurso[p].datos)} :
              /\ Cabe(s)
              /\ juegos' = s.juegos
              /\ sigJuego' = Siguiente(s)
              /\ res' = Respuesta("crearJuego", enCurso[p].ruta, IdVacio,
                                  enCurso[p].datos, s)
              /\ fechas' = Sellar(s, "juegos", sigJuego)
              /\ enCurso' = [enCurso EXCEPT ![p] = Libre]
              /\ UNCHANGED <<panel, cupo, reloj, resenias, sigResenia, resPrevio>>

\* titles without metacharacters: two that differ in case only, and another
CuerposCarrera ==
    {[CuerpoBase EXCEPT !.nombre = t] : t \in {<<"a">>, <<"A">>, <<"b">>}}

NextCarrera ==
    \/ CrearJuego_findOne(CuerposCarrera)
    \/ CrearJuego_save
    \/ EliminarJuegoServicio

SpecCarrera == Init /\ [][NextCarrera]_vars

-----------------------------------------------------------------------------
(* The life of a document: created, updated, deleted *)

ObtenerJuegoServicio ==
    \E id \in IdsJuego :
        \E s \in {JuegoService_obtenerPorId(juegos, id)} :
            /\ res' = Respuesta("obtenerJuego", "servicio", id, SinCuerpo, s)
            /\ UNCHANGED <<enCurso, panel, cupo, reloj, fechas, juegos, resenias,
                           sigJuego, sigResenia, resPrevio>>

\* the bodies of the writes: two titles
CuerposCiclo == {CuerpoBase, [CuerpoBase EXCEPT !.nombre = <<"b">>]}

NextCiclo ==
    \/ CrearJuegoServicio(CuerposCiclo)
    \/ ActualizarJuegoServicio(CuerposCiclo)
    \/ EliminarJuegoServicio
    \/ ObtenerJuegoServicio
    \/ CrearReseniaServicio({CuerpoResenia})
    \/ ActualizarReseniaServicio({CuerpoResenia})
    \/ EliminarReseniaServicio
    \/ ObtenerReseniaServicio

SpecCiclo == Init /\ [][NextCiclo]_vars

-----------------------------------------------------------------------------
(* Listings: the field of the sort *)

\* requests that name no field, a field of the lists of sortable fields, and
\* fields of neither list
ConsultasOrden ==
    [pagina : {Ausente, Numero(1)},
     limite : {Ausente},
     ordenarPor : {"", "genero", "horasJugadas", "juegoId"},
     orden : {"asc", "desc"}]

\* the stores of up to MaxEst juegos with 0, 5 or 10 hours each; the first
\* two juegos have a resenia each, the older of the newer juego
InitOrden ==
    /\ \E n \in 0..MaxEst :
          \E h \in [1..n -> {0, 5, 10}] :
             /\ juegos = {JuegoHoras(i, h[i]) : i \in 1..n}
             /\ resenias = IF n < 2 THEN {}
                           ELSE {NuevaResenia(i, [CuerpoResenia EXCEPT !.juegoId = 3 - i]) :
                                    i \in 1..2}
    /\ sigJuego = Cardinality(juegos) + 1
    /\ sigResenia = Cardinality(resenias) + 1
    /\ res = SinRespuesta
    /\ resPrevio = SinRespuesta
    /\ reloj = 0
    /\ panel = SinPanel
    /\ enCurso = SinCurso
    /\ cupo = MaxCalif
    /\ fechas = SinFechas

NextOrden ==
    \/ ListarJuegosServicio(ConsultasOrden, FALSE)
    \/ ListarJuegosControlador(ConsultasOrden)
    \/ ListarReseniasServicio(ConsultasOrden)

SpecOrden == InitOrden /\ [][NextOrden]_vars

-----------------------------------------------------------------------------
(* Rankings by rating *)

\* $group: { _id: "$juegoId", promedioCalificacion: { $avg: "$calificacion" },
\* totalResenias: { $sum: 1 } }, $match: { totalResenias: { $gte: 1 } },
\* $lookup from juegos, $unwind "$juego" (a group whose juego is not stored
\* yields nothing), $project with $round: ["$promedioCalificacion", 2]: the
\* average in hundredths, null when no document of the group has the path
\* calificacion
FilasMejores(J, R) ==
    {[_id |-> j._id, nombre |-> j.nombre, genero |-> j.genero,
      plataforma |-> j.plataforma,
      promedioCalificacion |->
          LET N == {r \in R : r.juegoId = j._id /\ r.calificacion # 0}
          IN  IF N = {} THEN null
              ELSE Num(Redondear(10 * Suma(N, "calificacion"), Cardinality(N))),
      totalResenias |-> Cardinality({r \in R : r.juegoId = j._id})] :
        j \in {x \in J : \E r \in R : r.juegoId = x._id}}

\* the place of a value in a sort: null comes before every number
ValorOrden(v) == IF v = null THEN 0 - 1 ELSE v.n

\* a comes after b under $sort: { promedioCalificacion: -1, totalResenias: -1 }
DespuesMejores(a, b) ==
    \/ ValorOrden(a.promedioCalificacion) < ValorOrden(b.promedioCalificacion)
    \/ /\ ValorOrden(a.promedioCalificacion) = ValorOrden(b.promedioCalificacion)
       /\ a.totalResenias < b.totalResenias

\* the orders the $sort stage can give the rows: rows that tie in both keys
\* come in any order
OrdenMejores(F) ==
    {L \in [1..Cardinality(F) -> F] :
        /\ \A i, k \in 1..Cardinality(F) : i # k => L[i] # L[k]
        /\ \A i, k \in 1..Cardinality(F) : i < k => ~DespuesMejores(L[i], L[k])}

\* EstadisticasService.obtenerMejoresCalificados(limite): { $limit: limite }
obtenerMejoresCalificados(J, R, limite) ==
    {SalidaR(R, SinError,
             [tipo |-> "ranking",
              mejores |-> SubSeq(L, 1, IF limite < Len(L) THEN limite ELSE Len(L))]) :
        L \in OrdenMejores(FilasMejores(J, R))}

ObtenerMejoresCalificados ==
    \E n \in 1..MaxTop \cup {LimiteRanking} :
        \E s \in obtenerMejoresCalificados(juegos, resenias, n) :
            /\ res' = Respuesta("obtenerMejoresCalificados", "servicio", IdVacio,
                                [limite |-> n], s)
            /\ UNCHANGED <<enCurso, panel, cupo, reloj, fechas, juegos, resenias,
                           sigJuego, sigResenia, resPrevio>>

\* a stored resenia: of the canonical application with the rating given, or
\* (rating 0) of the earlier application, which holds its rating in puntuacion
ReseniaDe(id, juegoId, clase) ==
    IF clase = 0
    THEN NuevaResenia_legacy(id, [CuerpoResenia_legacy EXCEPT !.juegoId = juegoId])
    ELSE NuevaResenia(id, [CuerpoResenia EXCEPT !.juegoId = juegoId,
                                                !.calificacion = Decimas(clase)])

\* the stores of up to MaxEst resenias of up to MaxEst juegos, some of which
\* have been deleted since
InitMejores ==
    /\ \E vivos \in SUBSET (1..MaxEst) :
          juegos = {JuegoHoras(i, 0) : i \in vivos}
    /\ \E n \in 0..MaxEst :
          \E f \in [1..n -> (1..MaxEst) \X {0, 4, 5}] :
             resenias = {ReseniaDe(i, f[i][1], f[i][2]) : i \in 1..n}
    /\ sigJuego = MaxEst + 1
    /\ sigResenia = Cardinality(resenias) + 1
    /\ res = SinRespuesta
    /\ resPrevio = SinRespuesta
    /\ reloj = 0
    /\ panel = SinPanel
    /\ enCurso = SinCurso
    /\ cupo = MaxEst
    /\ fechas = SinFechas

NextMejores == ObtenerMejoresCalificados

SpecMejores == InitMejores /\ [][NextMejores]_vars

-----------------------------------------------------------------------------
(* Concurrent requests: the create of a resenia and the delete of its juego  *)
(* ReseniaService.crear awaits Juego.findById, Resenia.findOne (for a signed *)
(* resenia), save() and Resenia.findById().populate(), in this order.        *)

\* a request ends with the error e
Falla(op, ruta, body, R, e) ==
    Respuesta(op, ruta, IdVacio, body, SalidaR(R, e, SinCuerpo))

\* const juegoExiste = await Juego.findById(juegoId)
CrearResenia_findById(C) ==
    \E p \in Cursos, body \in C :
        /\ enCurso[p] = Libre
        /\ IF BuscarJuego(juegos, body.juegoId) = {}
           THEN /\ res' = Falla("crearResenia", "servicio", body, resenias,
                                Envolver(ErrorDe("Error", "NotFound")))
                /\ UNCHANGED enCurso
           ELSE /\ enCurso' = [enCurso EXCEPT ![p] =
                                  [op |-> "crearResenia",
                                   fase |-> IF body.autor # <<>> /\ body.autor # Anonimo
                                            THEN "juegoVisto" ELSE "verificado",
                                   ruta |-> "servicio", datos |-> body]]
                /\ UNCHANGED res
        /\ UNCHANGED <<panel, cupo, reloj, fechas, juegos, resenias, sigJuego,
                       sigResenia, resPrevio>>

\* const reseniaExistente = await Resenia.findOne({ juegoId, autor })
CrearResenia_findOne ==
    \E p \in Cursos :
        /\ enCurso[p].op = "crearResenia"
        /\ enCurso[p].fase = "juegoVisto"
        /\ IF \E r \in resenias : /\ r.juegoId = enCurso[p].datos.juegoId
                                  /\ r.autor = enCurso[p].datos.autor
           THEN /\ res' = Falla("crearResenia", "servicio", enCurso[p].datos, resenias,
                                Envolver(ErrorDe("Error", "DuplicateEntity")))
                /\ enCurso' = [enCurso EXCEPT ![p] = Libre]
           ELSE /\ enCurso' = [enCurso EXCEPT ![p].fase = "verificado"]
                /\ UNCHANGED res
        /\ UNCHANGED <<panel, cupo, reloj, fechas, juegos, resenias, sigJuego,
                       sigResenia, resPrevio>>

\* new Resenia({...}) and await nuevaResenia.save(): contenido.trim() throws
\* on a missing contenido, the schema validates, the store inserts
CrearResenia_save ==
    \E p \in Cursos :
        /\ enCurso[p].op = "crearResenia"
        /\ enCurso[p].fase = "verificado"
        /\ IF enCurso[p].datos.contenido = <<>> \/ ~reseniaSchemaValido(enCurso[p].datos)
           THEN /\ res' = Falla("crearResenia", "servicio", enCurso[p].datos, resenias,
                                Envolver(IF enCurso[p].datos.contenido = <<>>
                                         THEN ErrorDe("TypeError", "Internal")
                                         ELSE ErrorDe("ValidationError",
                                                      "ValidationFailed")))
                /\ enCurso' = [enCurso EXCEPT ![p] = Libre]
                /\ UNCHANGED <<resenias, sigResenia, fechas>>
           ELSE /\ sigResenia <= cupo
                /\ resenias' = resenias \cup {NuevaResenia(sigResenia, enCurso[p].datos)}
                /\ sigResenia' = sigResenia + 1
                /\ fechas' = [fechas EXCEPT !["resenias"] = ConFecha(@, sigResenia, reloj)]
                /\ enCurso' = [enCurso EXCEPT ![p] =
                                  [op |-> "crearResenia", fase |-> "guardada",
                                   ruta |-> "servicio", datos |-> enCurso[p].datos,
                                   id |-> sigResenia]]
                /\ UNCHANGED res
        /\ UNCHANGED <<panel, cupo, reloj, juegos, sigJuego, resPrevio>>

\* await Resenia.findById(reseniaGuardada._id).populate('juegoId', ...) and
\* return transformarReseniaAFrontend(reseniaCompleta), null for no document
CrearResenia_populate ==
    \E p \in Cursos :
        /\ enCurso[p].op = "crearResenia"
        /\ enCurso[p].fase = "guardada"
        /\ res' = Respuesta("crearResenia", "servicio", IdVacio, enCurso[p].datos,
                     SalidaR(resenias, SinError,
                             IF BuscarResenia(resenias, enCurso[p].id) = {}
                             THEN [tipo |-> "null"]
                             ELSE LET r == CHOOSE x \in resenias : x._id = enCurso[p].id
                                  IN  transformarReseniaAFrontend(r, Populate(juegos, r))))
        /\ enCurso' = [enCurso EXCEPT ![p] = Libre]
        /\ UNCHANGED <<panel, cupo, reloj, fechas, juegos, resenias, sigJuego,
                       sigResenia, resPrevio>>

\* resenias of juego 1: an unsigned one and a signed one
CuerposHuerfana == {CuerpoResenia, [CuerpoResenia EXCEPT !.autor = <<"n">>]}

NextHuerfana ==
    \/ CrearJuegoServicio({CuerpoBase})
    \/ EliminarJuegoServicio
    \/ CrearResenia_findById(CuerposHuerfana)
    \/ CrearResenia_findOne
    \/ CrearResenia_save
    \/ CrearResenia_populate

SpecHuerfana == Init /\ [][NextHuerfana]_vars

-----------------------------------------------------------------------------
(* Resenias and their authors: creates, updates and deletes of the service *)

NextAutoria ==
    \/ CrearJuegoServicio({CuerpoBase})
    \/ CrearReseniaServicio(CuerposAutores)
    \/ ActualizarReseniaServicio(CuerposAutores)
    \/ EliminarReseniaServicio

SpecAutoria == InitAutores /\ [][NextAutoria]_vars

-----------------------------------------------------------------------------
(* Concurrent requests: an update and the delete of the same document        *)
(* actualizar awaits findById, then findOne when the title changes (for a    *)
(* resenia Juego.findById when juegoId changes), then findByIdAndUpdate,     *)
(* which answers null for a document that is no longer there.                *)

\* findByIdAndUpdate(id, {...}, { new: true }) found no document
Nulo == [tipo |-> "null"]

\* const juegoExistente = await Juego.findById(id)
ActualizarJuego_findById(C) ==
    \E p \in Cursos, ruta \in {"servicio", "controlador"}, id \in IdsJuego, body \in C :
        /\ enCurso[p] = Libre
        /\ IF BuscarJuego(juegos, id) = {}
           THEN /\ res' = Respuesta("actualizarJuego", ruta, id, body,
                             Salida(juegos,
                                    IF ruta = "servicio"
                                    THEN Envolver(ErrorDe("Error", "NotFound"))
                                    ELSE crearError("NotFound", 404),
                                    SinCuerpo))
                /\ UNCHANGED enCurso
           ELSE /\ enCurso' = [enCurso EXCEPT ![p] =
                      [op |-> "actualizarJuego",
                       fase |-> LET existente == CHOOSE j \in juegos : j._id = id
                                IN  IF body.nombre # <<>> /\ body.nombre # existente.nombre
                                    THEN "visto" ELSE "verificado",
                       ruta |-> ruta, datos |-> body, id |-> id]]
                /\ UNCHANGED res
        /\ UNCHANGED <<panel, cupo, reloj, fechas, juegos, resenias, sigJuego,
                       sigResenia, resPrevio>>

\* await Juego.findOne({ nombre: new RegExp(...), _id: { $ne: id } })
ActualizarJuego_findOne ==
    \E p \in Cursos :
        /\ enCurso[p].op = "actualizarJuego"
        /\ enCurso[p].fase = "visto"
        /\ IF ~RegexValida(enCurso[p].datos.nombre)
           THEN /\ res' = Respuesta("actualizarJuego", enCurso[p].ruta, enCurso[p].id,
                             enCurso[p].datos,
                             Salida(juegos,
                                    ErrorEn(enCurso[p].ruta,
                                            ErrorDe("SyntaxError", "Internal")),
                                    SinCuerpo))
                /\ enCurso' = [enCurso EXCEPT ![p] = Libre]
           ELSE IF BuscarPorNombre(juegos, enCurso[p].datos.nombre, enCurso[p].id) # {}
           THEN /\ res' = Respuesta("actualizarJuego", enCurso[p].ruta, enCurso[p].id,
                             enCurso[p].datos,
                             Salida(juegos,
                                    IF enCurso[p].ruta = "servicio"
                                    THEN Envolver(ErrorDe("Error", "DuplicateEntity"))
                                    ELSE crearError("DuplicateEntity", 409),
                                    SinCuerpo))
                /\ enCurso' = [enCurso EXCEPT ![p] = Libre]
           ELSE /\ enCurso' = [enCurso EXCEPT ![p].fase = "verificado"]
                /\ UNCHANGED res
        /\ UNCHANGED <<panel, cupo, reloj, fechas, juegos, resenias, sigJuego,
                       sigResenia, resPrevio>>

\* const juegoActualizado = await Juego.findByIdAndUpdate(id, {...datos,
\* fechaActualizacion}, { new: true, runValidators: true }) and the answer:
\* the service returns transformarAFrontend(juegoActualizado), null for null;
\* controller v1 reads juegoActualizado.nombre first, a TypeError on null
actualizar_findByIdAndUpdate(J, ruta, id, datos) ==
    IF ~juegoSchemaValido(datos)
    THEN Salida(J, ErrorEn(ruta, ErrorDe("ValidationError", "ValidationFailed")),
                SinCuerpo)
    ELSE IF BuscarJuego(J, id) = {}
    THEN IF ruta = "servicio" THEN Salida(J, SinError, Nulo)
         ELSE Salida(J, ErrorDe("TypeError", "Internal"), SinCuerpo)
    ELSE LET existente == CHOOSE j \in J : j._id = id
             nuevo == ActualizarDoc(existente, datos)
         IN  Salida((J \ {existente}) \cup {nuevo}, SinError,
                    transformarAFrontend(nuevo))

ActualizarJuego_findByIdAndUpdate ==
    \E p \in Cursos :
        /\ enCurso[p].op = "actualizarJuego"
        /\ enCurso[p].fase = "verificado"
        /\ \E s \in {actualizar_findByIdAndUpdate(juegos, enCurso[p].ruta,
                                                  enCurso[p].id, enCurso[p].datos)} :
              /\ juegos' = s.juegos
              /\ res' = Respuesta("actualizarJuego", enCurso[p].ruta, enCurso[p].id,
                                  enCurso[p].datos, s)
              /\ fechas' = IF s.body.tipo = "juego"
                           THEN Sellar(s, "juegos", enCurso[p].id) ELSE fechas
              /\ enCurso' = [enCurso EXCEPT ![p] = Libre]
              /\ UNCHANGED <<panel, cupo, reloj, resenias, sigJuego, sigResenia,
                             resPrevio>>

\* const reseniaExistente = await Resenia.findById(id)
ActualizarResenia_findById(C) ==
    \E p \in Cursos, ruta \in {"servicio", "controlador"}, id \in IdsResenia,
       body \in C :
        /\ enCurso[p] = Libre
        /\ IF BuscarResenia(resenias, id) = {}
           THEN /\ res' = Respuesta("actualizarResenia", ruta, id, body,
                             SalidaR(resenias,
                                     IF ruta = "servicio"
                                     THEN Envolver(ErrorDe("Error", "NotFound"))
                                     ELSE crearError("NotFound", 404),
                                     SinCuerpo))
                /\ UNCHANGED enCurso
           ELSE /\ enCurso' = [enCurso EXCEPT ![p] =
                      [op |-> "actualizarResenia",
                       fase |-> LET existente == CHOOSE r \in resenias : r._id = id
                                IN  IF /\ body.juegoId # IdVacio
                                       /\ body.juegoId # existente.juegoId
                                    THEN "visto" ELSE "verificado",
                       ruta |-> ruta, datos |-> body, id |-> id]]
                /\ UNCHANGED res
        /\ UNCHANGED <<panel, cupo, reloj, fechas, juegos, resenias, sigJuego,
                       sigResenia, resPrevio>>

\* const juegoExiste = await Juego.findById(datosActualizacion.juegoId)
ActualizarResenia_findJuego ==
    \E p \in Cursos :
        /\ enCurso[p].op = "actualizarResenia"
        /\ enCurso[p].fase = "visto"
        /\ IF BuscarJuego(juegos, enCurso[p].datos.juegoId) = {}
           THEN /\ res' = Respuesta("actualizarResenia", enCurso[p].ruta, enCurso[p].id,
                             enCurso[p].datos,
                             SalidaR(resenias,
                                     IF enCurso[p].ruta = "servicio"
                                     THEN Envolver(ErrorDe("Error", "NotFound"))
                                     ELSE crearError("NotFound", 404),
                                     SinCuerpo))
                /\ enCurso' = [enCurso EXCEPT ![p] = Libre]
           ELSE /\ enCurso' = [enCurso EXCEPT ![p].fase = "verificado"]
                /\ UNCHANGED res
        /\ UNCHANGED <<panel, cupo, reloj, fechas, juegos, resenias, sigJuego,
                       sigResenia, resPrevio>>

\* const reseniaActualizada = await Resenia.findByIdAndUpdate(...).populate(...)
\* and the answer transformarReseniaAFrontend(reseniaActualizada), null for
\* null, in the service and in the controller alike
actualizarResenia_findByIdAndUpdate(J, R, ruta, id, datos) ==
    IF ~reseniaSchemaValido_update(datos)
    THEN SalidaR(R, ErrorEn(ruta, ErrorDe("ValidationError", "ValidationFailed")),
                 SinCuerpo)
    ELSE IF BuscarResenia(R, id) = {}
    THEN SalidaR(R, SinError, Nulo)
    ELSE LET existente == CHOOSE r \in R : r._id = id
             nueva == ActualizarDocResenia(existente, datos)
         IN  SalidaR((R \ {existente}) \cup {nueva}, SinError,
                     transformarReseniaAFrontend(nueva, Populate(J, nueva)))

ActualizarResenia_findByIdAndUpdate ==
    \E p \in Cursos :
        /\ enCurso[p].op = "actualizarResenia"
        /\ enCurso[p].fase = "verificado"
        /\ \E s \in {actualizarResenia_findByIdAndUpdate(juegos, resenias,
                        enCurso[p].ruta, enCurso[p].id, enCurso[p].datos)} :
              /\ resenias' = s.resenias
              /\ res' = Respuesta("actualizarResenia", enCurso[p].ruta, enCurso[p].id,
                                  enCurso[p].datos, s)
              /\ fechas' = IF s.body.tipo = "resenia"
                           THEN Sellar(s, "resenias", enCurso[p].id) ELSE fechas
              /\ enCurso' = [enCurso EXCEPT ![p] = Libre]
              /\ UNCHANGED <<panel, cupo, reloj, juegos, sigJuego, sigResenia,
                             resPrevio>>

\* resenias of juego 1 and of juego 2
CuerposMudanza == {CuerpoResenia, [CuerpoResenia EXCEPT !.juegoId = 2]}

NextActualizarEliminar ==
    \/ CrearJuegoServicio(CuerposCiclo)
    \/ EliminarJuegoServicio
    \/ ActualizarJuego_findById(CuerposCiclo)
    \/ ActualizarJuego_findOne
    \/ ActualizarJuego_findByIdAndUpdate
    \/ CrearReseniaServicio({CuerpoResenia})
    \/ EliminarReseniaServicio
    \/ ActualizarResenia_findById(CuerposMudanza)
    \/ ActualizarResenia_findJuego
    \/ ActualizarResenia_findByIdAndUpdate

SpecActualizarEliminar == Init /\ [][NextActualizarEliminar]_vars

-----------------------------------------------------------------------------
(* PUT /juegos/:id on any payload: validarJuego, sanitizarJuego and the      *)
(* update.  The payload and the stored documents are JavaScript values, so   *)
(* that a field that is absent and a field that is 0 or '' are told apart.   *)

\* validarJuego: resena.length > 1000 is rejected
MaxResenaValidar == 1000

\* juegoSchema: maxlength of resena, desarrollador and tienda
MaxResenaSchema == 2000
MaxDesarrollador == 100
MaxTienda == 50

\* 'RPG', 'Puzzle'
GenerosValidos_valor == {Str(<<"R", "P", "G">>), Str(<<"P", "u", "z", "z", "l", "e">>)}

\* /^https?:\/\/.+/.test(s)
EsUrl(s) ==
    \/ Len(s) > 7 /\ SubSeq(s, 1, 7) = <<"h", "t", "t", "p", ":", "/", "/">>
    \/ Len(s) > 8 /\ SubSeq(s, 1, 8) = <<"h", "t", "t", "p", "s", ":", "/", "/">>

\* parseInt(v) and parseFloat(v) of a number or of a string of digits
parseFloat(v) ==
    CASE v.t = "number" -> v
      [] v.t = "string" ->
            IF Trim(v.s) # <<>> /\ \A i \in 1..Len(Trim(v.s)) : Trim(v.s)[i] \in DOMAIN Cifra
            THEN Num(ValorDe(Trim(v.s))) ELSE NaN
      [] OTHER -> NaN

\* s.trim() of a string
trim(v) == Str(Trim(v.s))

\* middleware validarJuego on any body: some rule is violated
validarJuego_valor(v) ==
    \/ ~Truthy(Get(v, "nombre")) \/ Typeof(Get(v, "nombre")) # "string"
    \/ Trim(Get(v, "nombre").s) = <<>>
    \/ ~Truthy(Get(v, "anio")) \/ Get(v, "anio").t # "number"
    \/ Get(v, "anio").n < AnioMin \/ Get(v, "anio").n > AnioActual + 2
    \/ ~Truthy(Get(v, "genero")) \/ Typeof(Get(v, "genero")) # "string"
    \/ Trim(Get(v, "genero").s) = <<>>
    \/ ~Truthy(Get(v, "plataforma")) \/ Typeof(Get(v, "plataforma")) # "string"
    \/ Trim(Get(v, "plataforma").s) = <<>>
    \/ Truthy(Get(v, "imagen")) /\ Typeof(Get(v, "imagen")) # "string"
    \/ Truthy(Get(v, "resena")) /\ Typeof(Get(v, "resena")) # "string"
    \/ Len(Get(v, "nombre").s) > MaxNombre
    \/ Truthy(Get(v, "resena")) /\ Len(Get(v, "resena").s) > MaxResenaValidar

\* sanitizarJuego on a body of strings, numbers and booleans: a field is
\* copied only when its value is truthy, completado when it is not undefined
sanitizarJuego_valor(v) ==
    LET texto == {"nombre", "genero", "plataforma", "imagen", "resena",
                  "desarrollador", "tienda"}
        copia == {k \in texto \cup {"anio", "horasJugadas"} : Truthy(Get(v, k))}
                 \cup {k \in {"completado"} : Get(v, k) # undefined}
    IN  Obj([k \in copia |->
                IF k \in texto THEN trim(Get(v, k))
                ELSE IF k = "completado" THEN Boolean(Get(v, k))
                ELSE parseFloat(Get(v, k))])

\* runValidators of findByIdAndUpdate: the validators of the paths that are set
juegoSchemaValido_valor(d) ==
    /\ "nombre" \in DOMAIN d.f => Len(d.f.nombre.s) <= MaxNombre
    /\ "anio" \in DOMAIN d.f => d.f.anio.n >= AnioMin /\ d.f.anio.n <= AnioActual + 2
    /\ "genero" \in DOMAIN d.f => d.f.genero \in GenerosValidos_valor
    /\ "imagen" \in DOMAIN d.f => d.f.imagen.s = <<>> \/ EsUrl(d.f.imagen.s)
    /\ "resena" \in DOMAIN d.f => Len(d.f.resena.s) <= MaxResenaSchema
    /\ "desarrollador" \in DOMAIN d.f => Len(d.f.desarrollador.s) <= MaxDesarrollador
    /\ "tienda" \in DOMAIN d.f => Len(d.f.tienda.s) <= MaxTienda
    /\ "horasJugadas" \in DOMAIN d.f =>
          d.f.horasJugadas.t = "number" /\ d.f.horasJugadas.n <= MaxHoras

\* the document after $set of the paths of datos
Set(doc, datos) ==
    Obj([k \in DOMAIN doc.f \cup DOMAIN datos.f |->
            IF k \in DOMAIN datos.f THEN datos.f[k] ELSE doc.f[k]])

\* the stored document with the _id id
PorId(J, id) == {j \in J : Get(j, "_id") = Oid(id)}

\* router.put("/:id", validarId, validarJuego, actualizarJuego): validarJuego
\* replaces req.body by sanitizarJuego(req.body); the handler looks the
\* document up, looks for another one with the new title, updates and answers
rutaActualizarJuego_valor(J, ruta, id, body) ==
    IF validarJuego_valor(body)
    THEN Salida(J, crearError("ValidationFailed", 400), SinCuerpo)
    ELSE LET datos == sanitizarJuego_valor(body)
         IN  IF PorId(J, id) = {}
             THEN Salida(J, IF ruta = "servicio"
                            THEN Envolver(ErrorDe("Error", "NotFound"))
                            ELSE crearError("NotFound", 404), SinCuerpo)
             ELSE LET existente == CHOOSE j \in J : Get(j, "_id") = Oid(id)
                      cambia == Get(datos, "nombre") # Get(existente, "nombre")
                  IN  IF cambia /\ ~RegexValida(Get(datos, "nombre").s)
                      THEN Salida(J, ErrorEn(ruta, ErrorDe("SyntaxError", "Internal")),
                                  SinCuerpo)
                      ELSE IF /\ cambia
                              /\ \E j \in J \ {existente} :
                                    Coincide(Get(datos, "nombre").s, Get(j, "nombre").s)
                      THEN Salida(J, IF ruta = "servicio"
                                     THEN Envolver(ErrorDe("Error", "DuplicateEntity"))
                                     ELSE crearError("DuplicateEntity", 409), SinCuerpo)
                      ELSE IF ~juegoSchemaValido_valor(datos)
                      THEN Salida(J, ErrorEn(ruta, ErrorDe("ValidationError",
                                                           "ValidationFailed")),
                                  SinCuerpo)
                      ELSE Salida((J \ {existente}) \cup {Set(existente, datos)},
                                  SinError,
                                  transformarAFrontend_valor(Set(existente, datos)))

\* a stored juego with every optional field filled in
DocLleno ==
    Obj([_id |-> Oid(1), nombre |-> Str(<<"a">>), anio |-> Num(2019),
         genero |-> Str(<<"R", "P", "G">>), plataforma |-> Str(<<"P", "C">>),
         imagen |-> Str(<<"h", "t", "t", "p", ":", "/", "/", "u">>),
         resena |-> Str(<<"r">>), desarrollador |-> Str(<<"d">>),
         tienda |-> Str(<<"t">>), completado |-> Bool(TRUE),
         horasJugadas |-> Num(5)])

\* the required fields of a payload
CargaBase ==
    [nombre |-> Str(<<"a">>), anio |-> Num(2020),
     genero |-> Str(<<"R", "P", "G">>), plataforma |-> Str(<<"P", "C">>)]

\* the values a payload gives an optional field: 0, '' or false, and another
ValoresDe(k) ==
    CASE k = "horasJugadas" -> {Num(0), Num(7)}
      [] k = "completado" -> {Bool(FALSE), Bool(TRUE)}
      [] k = "imagen" -> {Str(<<>>), Str(<<"h", "t", "t", "p", ":", "/", "/", "n">>)}
      [] OTHER -> {Str(<<>>), Str(<<"n">>)}

\* the payloads of the update: the required fields alone, with one optional
\* field, with another title, with a genre outside the enum, without the year
CargasActualizar ==
    {Obj(CargaBase)}
    \cup UNION {{Obj((k :> x) @@ CargaBase) : x \in ValoresDe(k)} :
                   k \in {"horasJugadas", "completado", "imagen", "resena",
                          "desarrollador", "tienda"}}
    \cup {Obj([CargaBase EXCEPT !.nombre = Str(<<"b">>)]),
          Obj([CargaBase EXCEPT !.genero = Str(<<"G">>)]),
          Obj([CargaBase EXCEPT !.anio = Num(0)])}

ActualizarJuegoValidado ==
    \E ruta \in {"servicio", "controlador"}, id \in IdsJuego, body \in CargasActualizar :
        \E s \in {rutaActualizarJuego_valor(juegos, ruta, id, body)} :
            /\ juegos' = s.juegos
            /\ res' = Respuesta("actualizarJuego", ruta, id, body, s)
            /\ fechas' = Sellar(s, "juegos", id)
            /\ UNCHANGED <<enCurso, panel, cupo, reloj, resenias, sigJuego, sigResenia,
                           resPrevio>>

InitActualizacion ==
    /\ juegos = {DocLleno}
    /\ resenias = {}
    /\ sigJuego = 2
    /\ sigResenia = 1
    /\ res = SinRespuesta
    /\ resPrevio = SinRespuesta
    /\ reloj = 0
    /\ panel = SinPanel
    /\ enCurso = SinCurso
    /\ cupo = MaxResenias
    /\ fechas = SinFechas

NextActualizacion == ActualizarJuegoValidado

SpecActualizacion == InitActualizacion /\ [][NextActualizacion]_vars

-----------------------------------------------------------------------------
(* Concurrent requests: reads made of several queries, and writes between    *)
(* them.  obtenerDashboard starts seven aggregations with Promise.all and    *)
(* obtenerTodos awaits find() and then countDocuments(); the store answers   *)
(* each query from the documents it holds at that instant.                   *)

\* what the store answers a query of the dashboard with
ConsultaPanel(q, J) ==
    IF q = "obtenerEstadisticasJuegos" THEN {obtenerEstadisticasJuegos(J)}
    ELSE IF q = "obtenerDistribucionGeneros" THEN obtenerDistribucionGeneros(J)
    ELSE IF q = "obtenerDistribucionPlataformas" THEN obtenerDistribucionPlataformas(J)
    ELSE {Salida(J, SinError, [de |-> q])}

\* the object obtenerDashboard returns, from the answers r of its queries
InformePanel(r) ==
    [tipo |-> "dashboard",
     resumen |-> [totalJuegos |-> r["obtenerEstadisticasJuegos"].totalJuegos,
                  resenias |-> r["obtenerEstadisticasResenias"]],
     distribuciones |-> [generos |-> r["obtenerDistribucionGeneros"].filas,
                         plataformas |-> r["obtenerDistribucionPlataformas"].filas],
     tendencias |-> r["obtenerTendenciasCreacion"],
     rankings |-> [masJugados |-> r["obtenerJuegosMasJugados"],
                   mejoresCalificados |-> r["obtenerMejoresCalificados"]],
     version |-> "1.0"]

\* no read is in progress; reads do not write, so one read at a time among
\* the writes shows every answer a read can give
SinLecturas == panel.fase # "pendiente" /\ \A p \in Cursos : enCurso[p] = Libre

\* obtenerDashboard is called: Promise.all starts the seven queries
Dashboard_llamar ==
    /\ SinLecturas
    /\ panel' = [fase |-> "pendiente",
                 consultas |-> [q \in ConsultasPanel |-> "pendiente"],
                 resultados |-> <<>>]
    /\ UNCHANGED <<enCurso, cupo, reloj, fechas, juegos, resenias, sigJuego, sigResenia,
                   res, resPrevio>>

\* the store answers one of the queries; a failure rejects Promise.all and
\* the dashboard throws, the last answer fulfils it and the dashboard returns
Dashboard_consulta ==
    \E q \in ConsultasPanel :
        /\ panel.fase = "pendiente"
        /\ panel.consultas[q] = "pendiente"
        /\ \E s \in ConsultaPanel(q, juegos) :
              LET c == [panel.consultas EXCEPT ![q] = IF s.err = SinError THEN "ok"
                                                      ELSE "error"]
                  r == (q :> s.body) @@ panel.resultados
              IN  /\ panel' = [fase |-> PromiseAll(c), consultas |-> c,
                               resultados |-> r]
                  /\ res' = IF PromiseAll(c) = "resuelto"
                            THEN Respuesta("obtenerDashboard", "servicio", IdVacio,
                                           SinCuerpo,
                                           [err |-> SinError, body |-> InformePanel(r)])
                            ELSE IF PromiseAll(c) = "rechazado"
                            THEN Respuesta("obtenerDashboard", "servicio", IdVacio,
                                           SinCuerpo, obtenerDashboard(c, q))
                            ELSE res
        /\ UNCHANGED <<enCurso, cupo, reloj, fechas, juegos, resenias, sigJuego,
                       sigResenia, resPrevio>>

\* const juegos = await Juego.find(query).sort(...).limit(...).skip(skip)
ListarJuegos_find(Q) ==
    \E p \in Cursos, q \in Q :
        \E s \in JuegoService_obtenerTodos(juegos, q) :
            /\ SinLecturas
            /\ IF s.err # SinError
               THEN /\ res' = Respuesta("listarJuegos", "servicio", IdVacio, q, s)
                    /\ UNCHANGED enCurso
               ELSE /\ enCurso' = [enCurso EXCEPT ![p] =
                                      [op |-> "listarJuegos", fase |-> "pagina",
                                       ruta |-> "servicio", datos |-> q,
                                       pagina |-> s.body]]
                    /\ UNCHANGED res
            /\ UNCHANGED <<panel, cupo, reloj, fechas, juegos, resenias, sigJuego,
                           sigResenia, resPrevio>>

\* const total = await Juego.countDocuments(query) and the answer
ListarJuegos_countDocuments ==
    \E p \in Cursos :
        /\ enCurso[p].op = "listarJuegos"
        /\ enCurso[p].fase = "pagina"
        /\ res' = Respuesta("listarJuegos", "servicio", IdVacio, enCurso[p].datos,
                     Salida(juegos, SinError,
                            [enCurso[p].pagina EXCEPT
                                !.totalJuegos = Cardinality(juegos),
                                !.totalPaginas =
                                    Techo(Cardinality(juegos),
                                          enCurso[p].pagina.juegosPorPagina)]))
        /\ enCurso' = [enCurso EXCEPT ![p] = Libre]
        /\ UNCHANGED <<panel, cupo, reloj, fechas, juegos, resenias, sigJuego,
                       sigResenia, resPrevio>>

\* juegos of two genres on one platform
CuerposLectura == {CuerpoBase, [CuerpoBase EXCEPT !.nombre = <<"b">>, !.genero = "Puzzle"]}

\* the first page, of the default size
ConsultasLectura ==
    [pagina : {Numero(1)}, limite : {Ausente}, ordenarPor : {""}, orden : {"desc"}]

NextLectura ==
    \/ CrearJuegoServicio(CuerposLectura)
    \/ EliminarJuegoServicio
    \/ Dashboard_llamar
    \/ Dashboard_consulta
    \/ ListarJuegos_find(ConsultasLectura)
    \/ ListarJuegos_countDocuments

SpecLectura == Init /\ [][NextLectura]_vars

-----------------------------------------------------------------------------
(* Claims about the catalogue of juegos *)

\* the live items whose title equals t ignoring case
MismoTitulo(J, t) == {j \in J : Minusculas(Titulo(j)) = Minusculas(Trim(t))}

\* C1: Create Item (JuegoService.crear, juegoController.crearJuego) with a
\* well-formed body: when a live item has the same title ignoring case the
\* request fails with DuplicateEntity and adds no item; otherwise it succeeds,
\* adds exactly one item, and a read by the returned id returns that item.
C1_CrearJuego ==
    [][(/\ res'.op = "crearJuego"
        /\ res'.ruta \in {"servicio", "controlador"}
        /\ Trim(res'.cuerpo.nombre) # <<>>)
       => IF MismoTitulo(juegos, res'.cuerpo.nombre) # {}
          THEN res'.causa = "DuplicateEntity" /\ juegos' = juegos
          ELSE /\ res'.causa = "ok"
               /\ \E j \in juegos' \ juegos :
                     /\ juegos' = juegos \cup {j}
                     /\ res'.body.id = j._id
                     /\ JuegoService_obtenerPorId(juegos', j._id).body = res'.body]_vars

\* C2: no two live items have titles that are equal ignoring case
C2_TitulosUnicos ==
    \A j1, j2 \in juegos :
        j1 # j2 => Minusculas(Titulo(j1)) # Minusculas(Titulo(j2))

\* C22: Update Item (JuegoService.actualizar, juegoController.actualizarJuego)
\* of a live item with a well-formed body that changes its title: the request
\* fails with DuplicateEntity and leaves the store as it was exactly when
\* another live item has the new title ignoring case; the item's own title is
\* no collision, so giving it its own title in another case succeeds.
C22_ActualizarTitulo ==
    [][(/\ res'.op = "actualizarJuego"
        /\ res'.ruta \in {"servicio", "controlador"}
        /\ BuscarJuego(juegos, res'.id) # {}
        /\ Trim(res'.cuerpo.nombre) # <<>>
        /\ \E j \in juegos : j._id = res'.id /\ Titulo(j) # Trim(res'.cuerpo.nombre))
       => IF \E j \in MismoTitulo(juegos, res'.cuerpo.nombre) : j._id # res'.id
          THEN res'.causa = "DuplicateEntity" /\ juegos' = juegos
          ELSE /\ res'.causa # "DuplicateEntity"
               /\ (\E j \in MismoTitulo(juegos, res'.cuerpo.nombre) : j._id = res'.id)
                     => res'.causa = "ok"]_vars

-----------------------------------------------------------------------------
(* Claims about resenias *)

\* C3: a review's item reference is only set to an item that resolves.  Create
\* Review (ReseniaService.crear, or crearResenia behind its validation) with
\* an item id that does not resolve fails with NotFound and persists no review;
\* Update Review that changes the item reference of an existing review to an
\* id that does not resolve fails with NotFound and leaves the review as it was.
C3_ReferenciaResuelve ==
    [][/\ (/\ res'.op = "crearResenia"
           /\ \/ res'.ruta = "servicio"
              \/ res'.ruta = "controlador" /\ validarResenia(res'.cuerpo) = {}
           /\ BuscarJuego(juegos, res'.cuerpo.juegoId) = {})
          => res'.causa = "NotFound" /\ resenias' = resenias
       /\ (/\ res'.op = "actualizarResenia"
           /\ \/ res'.ruta = "servicio"
              \/ res'.ruta = "controlador" /\ validarResenia(res'.cuerpo) = {}
           /\ \E r \in resenias :
                 r._id = res'.id /\ r.juegoId # res'.cuerpo.juegoId
           /\ BuscarJuego(juegos, res'.cuerpo.juegoId) = {})
          => res'.causa = "NotFound" /\ resenias' = resenias]_vars

\* C3 happens: an update of an existing review to an item that does not
\* resolve was answered NotFound
C3_Testigo ==
    /\ res.op = "actualizarResenia"
    /\ res.ruta = "controlador"
    /\ res.causa = "NotFound"
    /\ \E r \in resenias : r._id = res.id /\ r.juegoId # res.cuerpo.juegoId
    /\ BuscarJuego(juegos, res.cuerpo.juegoId) = {}

\* C4: Delete Item removes exactly the addressed item and leaves the reviews
\* unchanged; every review that referred to the deleted item is still returned
\* by read-review-by-id and the returned review carries the deleted item's id.
C4_EliminarJuego ==
    [][(res'.op = "eliminarJuego" /\ res'.causa = "ok")
       => /\ juegos' = {j \in juegos : j._id # res'.id}
          /\ Cardinality(juegos') = Cardinality(juegos) - 1
          /\ resenias' = resenias
          /\ \A r \in resenias' :
                r.juegoId = res'.id =>
                   LET leida == ReseniaService_obtenerPorId(juegos', resenias', r._id)
                   IN  leida.err = SinError /\ leida.body.juegoId = res'.id]_vars

\* C5: every stored review's rating is an integer between 1 and 5
C5_CalificacionEntera ==
    \A r \in resenias :
        /\ EsEntero(Calificacion(r))
        /\ Calificacion(r) >= Decimas(CalificacionMin)
        /\ Calificacion(r) <= Decimas(CalificacionMax)

-----------------------------------------------------------------------------
(* Claims about malformed writes *)

\* the bodies whose structure the route of a write refuses.  An update through
\* ReseniaService, and one of the earlier application, set only the fields
\* that are present, so a missing field is no fault there.
Rechazable(op, ruta, c) ==
    \/ /\ op \in {"crearJuego", "actualizarJuego"}
       /\ \/ ruta \in {"servicio", "controlador"} /\ c \in InvalidosJuego
          \/ ruta = "legacy" /\ c \in InvalidosJuego_legacy
    \/ /\ op = "crearResenia"
       /\ \/ /\ ruta \in {"servicio", "controlador"}
             /\ c \in MalformadosResenia \cup IncompletosResenia
          \/ /\ ruta = "legacy"
             /\ c \in MalformadosResenia_legacy \cup IncompletosResenia_legacy
    \/ /\ op = "actualizarResenia"
       /\ \/ ruta = "controlador" /\ c \in MalformadosResenia \cup IncompletosResenia
          \/ ruta = "servicio" /\ c \in MalformadosResenia
          \/ ruta = "legacy" /\ c \in MalformadosResenia_legacy

-----------------------------------------------------------------------------
(* Claims about the statistics *)

\* C6: the completion percentage of obtenerEstadisticasJuegos and of every row
\* of the genre and platform distributions lies between 0 and 100; with no
\* items the percentage is exactly 0 and the computation does not fail
\* (no division by zero, no missing value).
C6_PorcentajeAcotado ==
    /\ res.op = "obtenerEstadisticasJuegos" =>
          /\ res.causa = "ok"
          /\ res.body.tipo = "estadisticas"
          /\ res.body.porcentajeCompletado >= 0
          /\ res.body.porcentajeCompletado <= Decimas(100)
          /\ juegos = {} => res.body.porcentajeCompletado = 0
    /\ res.op \in {"obtenerDistribucionGeneros", "obtenerDistribucionPlataformas"} =>
          /\ res.causa = "ok"
          /\ res.body.tipo = "distribucion"
          /\ \A i \in DOMAIN res.body.filas :
                /\ res.body.filas[i].porcentajeCompletado >= 0
                /\ res.body.filas[i].porcentajeCompletado <= Decimas(100)

\* C6 happens: the statistics of a store that was emptied were asked for
C6_Testigo ==
    /\ res.op = "obtenerEstadisticasJuegos"
    /\ juegos = {}
    /\ sigJuego > 1
    /\ res.body.porcentajeCompletado = 0

-----------------------------------------------------------------------------
(* Claims about the listings *)

\* the items page p holds when T items are listed S to a page
Esperados(T, S, p) ==
    LET resto == IF T - (p - 1) * S > 0 THEN T - (p - 1) * S ELSE 0
    IN  IF S < resto THEN S ELSE resto

\* the ids of the items of a page
IdsDe(pagina) == {pagina.juegos[i].id : i \in DOMAIN pagina.juegos}

\* C7: a page p of JuegoService.obtenerTodos over an unchanged store of T
\* items with page size S holds min(S, max(0, T-(p-1)*S)) items and reports
\* ceil(T/S) pages, and the pages answered to two requests that differ only in
\* the page number share no item.
C7_PaginasDisjuntas ==
    (res.op = "listarJuegos" /\ res.ruta = "servicio" /\ res.causa = "ok") =>
        /\ Len(res.body.juegos) =
              Esperados(Cardinality(juegos), res.body.juegosPorPagina,
                        res.body.paginaActual)
        /\ res.body.totalPaginas =
              Techo(Cardinality(juegos), res.body.juegosPorPagina)
        /\ (/\ resPrevio.op = "listarJuegos"
            /\ resPrevio.causa = "ok"
            /\ resPrevio.cuerpo.pagina # res.cuerpo.pagina
            /\ resPrevio.cuerpo.limite = res.cuerpo.limite
            /\ resPrevio.cuerpo.ordenarPor = res.cuerpo.ordenarPor
            /\ resPrevio.cuerpo.orden = res.cuerpo.orden)
           => IdsDe(res.body) \cap IdsDe(resPrevio.body) = {}

\* a page number below 1, or a page number or page size that is no number
ParametrosInvalidos(q) ==
    \/ q.pagina.tipo = "texto"
    \/ q.limite.tipo = "texto"
    \/ q.pagina.tipo = "numero" /\ q.pagina.n < 1

\* C8: a paged listing of juegos or of resenias asked with a page number below
\* 1, or with a page number or page size that is no number, fails with
\* InvalidArgument and answers no page.
C8_ParametrosRechazados ==
    (/\ res.op \in {"listarJuegos", "listarResenias"}
     /\ res.ruta = "servicio"
     /\ ParametrosInvalidos(res.cuerpo))
    => /\ res.causa = "InvalidArgument"
       /\ res.body = SinCuerpo

\* the items or reviews a listing answered with
Devueltos(body) ==
    IF "juegos" \in DOMAIN body THEN Len(body.juegos) ELSE Len(body.resenias)

\* C9: whatever page size is asked for, the limit a listing applies to its
\* query and the number of items it returns are at most 100, a larger size
\* being clamped to 100, and the paged listing skips (page-1) * effective size.
C9_LimiteAcotado ==
    (res.op \in {"listarJuegos", "listarResenias"} /\ res.causa = "ok") =>
        /\ res.body.consulta.limit <= LimiteMax
        /\ Devueltos(res.body) <= LimiteMax
        /\ (res.cuerpo.limite.tipo = "numero" /\ res.cuerpo.limite.n > LimiteMax)
              => res.body.consulta.limit = LimiteMax
        /\ (/\ res.ruta = "servicio"
            /\ res.cuerpo.pagina.tipo = "numero"
            /\ res.cuerpo.limite.tipo # "texto")
              => res.body.consulta.skip =
                    (res.cuerpo.pagina.n - 1) * res.body.consulta.limit

-----------------------------------------------------------------------------
(* Claims about time *)

\* C11: every successful update of a juego or of a resenia leaves the
\* document with fechaActualizacion equal to the time of that update, so
\* fechaActualizacion is never older than the latest successful update.
C11_FechaActualizada ==
    [][(/\ reloj' = reloj
        /\ res'.op \in {"actualizarJuego", "actualizarResenia"}
        /\ res'.causa = "ok")
       => LET col == IF res'.op = "actualizarJuego" THEN "juegos" ELSE "resenias"
          IN  /\ res'.id \in DOMAIN fechas'[col]
              /\ fechas'[col][res'.id] = reloj']_vars

-----------------------------------------------------------------------------
(* Claims about the authors of resenias *)

\* the resenias of R that the author a wrote about the juego j
DelAutor(R, j, a) == {r \in R : r.juegoId = j /\ r.autor = a}

\* C12: creating a resenia (ReseniaService.crear, reseniaController
\* .crearResenia) signed by an author other than the anonymous default is
\* refused as a duplicate, and nothing is stored, when the store holds a
\* resenia of the same author about the same juego; an unsigned or anonymous
\* resenia is never refused as a duplicate.
C12_AutorDuplicado ==
    [][(res'.op = "crearResenia" /\ res'.ruta \in {"servicio", "controlador"})
       => LET autor == Trim(res'.cuerpo.autor)
              firmada == autor # <<>> /\ autor # Anonimo
          IN  /\ (firmada /\ DelAutor(resenias, res'.cuerpo.juegoId, autor) # {})
                    => /\ res'.causa = "DuplicateEntity"
                       /\ resenias' = resenias
              /\ ~firmada => res'.causa # "DuplicateEntity"]_vars

\* C27: after any creates, updates and deletes of resenias by ReseniaService,
\* no two stored resenias have the same juego and the same signed author.
C27_AutorUnicoPorJuego ==
    \A r1, r2 \in resenias :
        (r1._id # r2._id /\ r1.juegoId = r2.juegoId /\ r1.autor = r2.autor)
           => r1.autor \in {<<>>, Anonimo}

-----------------------------------------------------------------------------
(* Claims about the error boundary *)

\* C13: a failure raised inside the services (an id that does not resolve, a
\* title or an author and juego already stored) is answered at the boundary
\* with the status code of its kind, 404 for NotFound and 409 for
\* DuplicateEntity, and never with the 500 of an internal error.
C13_ErroresClasificados ==
    (res.ruta = "servicio" /\ res.causa \in {"NotFound", "DuplicateEntity"})
       => res.status = IF res.causa = "NotFound" THEN 404 ELSE 409

-----------------------------------------------------------------------------
(* Claims about the mappers *)

\* the record carries both the canonical field and the alias of the pair p
LlevaAmbos(v, p) == v.t = "object" /\ {p[1], p[2]} \subseteq DOMAIN v.f

\* C14: when a stored record carries both a canonical field and its legacy
\* alias (nombre/titulo, anio/anioLanzamiento, imagen/imagenPortada,
\* resena/descripcion, contenido/textoResena, calificacion/puntuacion), the
\* canonical form got from transformarAFrontend or transformarReseniaAFrontend
\* has the value of the canonical field, whatever that value is.
C14_CanonicoSobreAlias ==
    (/\ res.op \in {"transformarAFrontend", "transformarReseniaAFrontend"}
     /\ res.ruta = "servicio"
     /\ res.salida.t = "object")
       => \A p \in AliasJuego \cup AliasResenia :
             LlevaAmbos(res.entrada, p) => res.salida.f[p[1]] = res.entrada.f[p[1]]

\* a stored record the mappers can render: an object whose dates are dates
BienFormado(v) ==
    /\ v.t = "object"
    /\ Lanza \notin {FechaIso(Get(v, "fechaCreacion")),
                     FechaIso(Get(v, "fechaActualizacion"))}

\* the optional text fields of a juego and their aliases
Opcionales ==
    {<<"imagen", "imagenPortada">>, <<"resena", "descripcion">>,
     <<"tienda", "tienda">>, <<"desarrollador", "desarrollador">>}

\* C15: the mappers towards the canonical form never throw: a value that is
\* no object (null, undefined, a number, a string, a boolean) gives null, an
\* object that lacks optional fields gives a record with their defaults, and
\* the array mappers give exactly the canonical forms of the well-formed
\* records, in order, every other element dropped.
C15_NuncaLanza ==
    /\ res.op \in {"transformarAFrontend", "transformarReseniaAFrontend",
                   "transformarArrayAFrontend"}
          => res.salida # Lanza
    /\ (/\ res.op \in {"transformarAFrontend", "transformarReseniaAFrontend"}
        /\ res.entrada \in NoObjetos)
          => res.salida = null
    /\ (res.op = "transformarAFrontend" /\ BienFormado(res.entrada))
          => /\ res.salida.t = "object"
             /\ \A p \in Opcionales :
                   ({p[1], p[2]} \cap DOMAIN res.entrada.f = {})
                      => Get(res.salida, p[1]) = Str(<<>>)
    /\ (res.op = "transformarArrayAFrontend" /\ res.entrada.t = "array")
          => /\ res.salida.t = "array"
             /\ \E buenos \in SUBSET (1..Len(res.entrada.e)) :
                   /\ buenos = {i \in 1..Len(res.entrada.e) :
                                   BienFormado(res.entrada.e[i])}
                   /\ Len(res.salida.e) = Cardinality(buenos)
                   /\ \A i \in buenos :
                         res.salida.e[Cardinality({k \in buenos : k <= i})].f.id
                            = toString(Get(res.entrada.e[i], "_id"))

\* the keys a payload to store must always show; the payload of a juego
\* counts the year among them
Requeridas(op, ruta) ==
    IF op = "transformarABackend" THEN {"nombre", "genero", "plataforma", "anio"}
    ELSE IF ruta = "legacy" THEN {"juegoId", "puntuacion", "textoResena"}
    ELSE {"juegoId", "calificacion", "contenido"}

\* C16: the payload transformarABackend and transformarReseniaABackend build
\* from an object has every required key (nombre, genero, plataforma of a
\* juego; juegoId, calificacion, contenido of a resenia), undefined or not,
\* and has no optional key whose value is undefined.
C16_ClavesRequeridas ==
    (/\ res.op \in {"transformarABackend", "transformarReseniaABackend"}
     /\ res.entrada.t = "object")
       => /\ res.salida.t = "object"
          /\ Requeridas(res.op, res.ruta) \subseteq DOMAIN res.salida.f
          /\ \A k \in DOMAIN res.salida.f \ Requeridas(res.op, res.ruta) :
                res.salida.f[k] # undefined

\* the fields of a juego and of a resenia that hold their data
DatosJuego ==
    {"nombre", "anio", "imagen", "resena", "genero", "plataforma", "tienda",
     "desarrollador", "completado", "horasJugadas"}
DatosResenia ==
    {"juegoId", "contenido", "calificacion", "autor", "dificultad",
     "recomendaria", "horasJugadas"}

\* the fields K of the record v
Datos(v, K) == [k \in K |-> Get(v, k)]

\* C17: a canonical juego or resenia with every optional field present,
\* mapped to the payload to store (transformarABackend,
\* transformarReseniaABackend) and that payload mapped back
\* (transformarAFrontend, transformarReseniaAFrontend), gives a record whose
\* data fields equal those of the original.
C17_IdaYVuelta ==
    /\ (/\ res.op = "transformarABackend" /\ res.ruta = "servicio"
        /\ res.entrada \in CanonicosJuego)
          => Datos(transformarAFrontend_valor(res.salida), DatosJuego)
                = Datos(res.entrada, DatosJuego)
    /\ (/\ res.op = "transformarReseniaABackend" /\ res.ruta = "servicio"
        /\ res.entrada \in CanonicosResenia)
          => Datos(transformarReseniaAFrontend_valor(res.salida), DatosResenia)
                = Datos(res.entrada, DatosResenia)

\* a completed juego with hours, image and review text went to the payload and
\* came back with the same data
C17_Testigo ==
    /\ res.op = "transformarABackend" /\ res.ruta = "servicio"
    /\ res.entrada = transformarAFrontend_valor(Obj(DocJuego))
    /\ Get(res.entrada, "completado") = Bool(TRUE)
    /\ Get(res.entrada, "horasJugadas") = Num(5)
    /\ "id" \notin DOMAIN res.salida.f
    /\ Datos(transformarAFrontend_valor(res.salida), DatosJuego)
          = Datos(Obj(DocJuego), DatosJuego)

-----------------------------------------------------------------------------
(* Claims about the dashboard *)

\* C18: when one of the seven queries obtenerDashboard awaits together has
\* failed, the dashboard has failed with one error, that of a query that
\* failed, and has returned no report; a report is returned only when the
\* seven queries are fulfilled.
C18_DashboardTodoONada ==
    /\ (\E q \in ConsultasPanel : panel.consultas[q] = "error")
          => /\ panel.fase = "rechazado"
             /\ res.op = "obtenerDashboard"
             /\ res.causa \in ConsultasPanel
             /\ panel.consultas[res.causa] = "error"
             /\ res.body = SinCuerpo
    /\ (res.op = "obtenerDashboard" /\ res.body # SinCuerpo)
          => /\ panel.fase = "resuelto"
             /\ \A q \in ConsultasPanel : panel.consultas[q] = "ok"
             /\ res.body = Informe(panel.consultas)

\* the dashboard failed on its first failed query while other queries were
\* fulfilled, failed later or still pending
C18_Testigo ==
    /\ panel.fase = "rechazado"
    /\ res.op = "obtenerDashboard" /\ res.body = SinCuerpo
    /\ res.causa = "obtenerTendenciasCreacion"
    /\ panel.consultas["obtenerEstadisticasJuegos"] = "ok"
    /\ panel.consultas["obtenerJuegosMasJugados"] = "error"
    /\ panel.consultas["obtenerMejoresCalificados"] = "pendiente"

-----------------------------------------------------------------------------
(* Claims about the rankings *)

\* the _id of an entry of a ranking: lean documents keep _id, canonical
\* records show id
IdDe(e) == IF "_id" \in DOMAIN e THEN e._id ELSE e.id

\* the smaller of two numbers
Menor(a, b) == IF a < b THEN a ELSE b

\* C19: the ranking by hours played asked for N juegos
\* (obtenerJuegosMasJugados(N), and the ten of JuegoService.obtenerEstadisticas)
\* has at most N entries, each a stored juego with more than 0 hours, in
\* non-increasing order of hours, and no juego left out has more hours than
\* one in the ranking; it is as long as N and the juegos with hours allow.
C19_Ranking ==
    (res.op \in {"obtenerJuegosMasJugados", "obtenerEstadisticas"})
       => LET L == res.body.juegosMasJugados
              N == res.cuerpo.limite
              dentro == {IdDe(L[i]) : i \in DOMAIN L}
          IN  /\ res.causa = "ok"
              /\ Len(L) <= N
              /\ Len(L) = Menor(N, Cardinality({j \in juegos : j.horasJugadas > 0}))
              /\ Cardinality(dentro) = Len(L)
              /\ \A i \in DOMAIN L :
                    /\ L[i].horasJugadas > 0
                    /\ \E j \in juegos :
                          j._id = IdDe(L[i]) /\ j.horasJugadas = L[i].horasJugadas
              /\ \A i, k \in DOMAIN L : i < k => L[i].horasJugadas >= L[k].horasJugadas
              /\ \A j \in juegos, i \in DOMAIN L :
                    j._id \notin dentro => j.horasJugadas <= L[i].horasJugadas

\* juegos with 0, 5 and 10 hours and a ranking of two: the juego of 10 hours,
\* then the juego of 5
C19_Testigo ==
    /\ res.op = "obtenerJuegosMasJugados" /\ res.cuerpo.limite = 2
    /\ {j.horasJugadas : j \in juegos} = {0, 5, 10}
    /\ Cardinality(juegos) = 3
    /\ Len(res.body.juegosMasJugados) = 2
    /\ res.body.juegosMasJugados[1].horasJugadas = 10
    /\ res.body.juegosMasJugados[2].horasJugadas = 5

-----------------------------------------------------------------------------
(* Claims about the statistics of the resenias of a juego *)

\* the stored resenias that refer to a juego
DelJuego(R, id) == {r \in R : r.juegoId = id}

RECURSIVE SumaCalificaciones(_)
\* the sum of the ratings of a set of resenias
SumaCalificaciones(D) ==
    IF D = {} THEN 0
    ELSE LET d == CHOOSE x \in D : TRUE
         IN  Calificacion(d) + SumaCalificaciones(D \ {d})

\* the statistics a response reports are those of the resenias D
Reporta(e, D) ==
    /\ e.totalResenias = Cardinality(D)
    /\ e.calificacionMinima.t = "number"
    /\ \E r \in D : Calificacion(r) = e.calificacionMinima.n
    /\ \A r \in D : Calificacion(r) >= e.calificacionMinima.n
    /\ e.calificacionMaxima.t = "number"
    /\ \E r \in D : Calificacion(r) = e.calificacionMaxima.n
    /\ \A r \in D : Calificacion(r) <= e.calificacionMaxima.n
    /\ e.promedioCalificacion.t = "number"
    /\ e.promedioCalificacion.num * Cardinality(D)
          = SumaCalificaciones(D) * e.promedioCalificacion.den

\* C20: the statistics of the resenias of a stored juego that has at least one
\* resenia (obtenerEstadisticasJuego of the service and of the controller),
\* after any creates, updates and deletes of resenias: the total is the number
\* of stored resenias that refer to the juego, the minimum and the maximum are
\* the smallest and the largest of their ratings, the average is their
\* arithmetic mean.
C20_EstadisticasJuego ==
    (/\ res.op = "obtenerEstadisticasJuego"
     /\ BuscarJuego(juegos, res.id) # {}
     /\ DelJuego(resenias, res.id) # {})
       => /\ res.causa = "ok"
          /\ Reporta(res.body.estadisticas, DelJuego(resenias, res.id))

-----------------------------------------------------------------------------
(* Claims about concurrent requests *)

\* a stored juego carries the title t, ignoring case
HayTitulo(J, t) == \E j \in J : Minusculas(j.nombre) = Minusculas(Trim(t))

\* C21: two creates of a juego with the same title that run concurrently both
\* pass the check of uniqueness and both insert.  A create passes the check
\* whenever no stored juego has its title, also while another create with
\* that title stands between its check and its insert; and the insert of a
\* create that passed the check stores the juego and answers 201 whatever the
\* store holds by then, a juego of the same title included.  The state with
\* two juegos whose titles are equal ignoring case is C21_Testigo.
C21_CrearNoEsAtomico ==
    [][\A p \in Cursos :
          /\ (/\ enCurso[p] = Libre
              /\ enCurso'[p] # Libre
              /\ enCurso'[p].op = "crearJuego")
                => /\ ~HayTitulo(juegos, enCurso'[p].datos.nombre)
                   /\ juegos' = juegos
          /\ (/\ enCurso[p].op = "crearJuego"
              /\ enCurso[p].fase = "verificado"
              /\ enCurso'[p] = Libre
              /\ juegoSchemaValido(enCurso[p].datos))
                => /\ juegos' = juegos \cup {NuevoJuego(sigJuego, enCurso[p].datos)}
                   /\ res'.causa = "ok"
                   /\ res'.status = 201]_vars

\* two stored juegos whose titles are equal ignoring case, the second one
\* just inserted by a create that was answered 201
C21_Testigo ==
    /\ res.op = "crearJuego"
    /\ res.status = 201
    /\ \E a, b \in juegos :
          /\ a._id # b._id
          /\ b._id = res.body.id
          /\ Minusculas(a.nombre) = Minusculas(b.nombre)

-----------------------------------------------------------------------------
(* Claims about the life of a document *)

\* the _ids of a collection
IdsEn(D) == {d._id : d \in D}

\* the collection a request is about
Coleccion(op, J, R) ==
    IF op \in {"obtenerJuego", "actualizarJuego", "eliminarJuego"} THEN J ELSE R

\* C23: a document is absent, then created, updated any number of times, then
\* deleted for good.  A read, an update or a delete (JuegoService,
\* ReseniaService) of an id that no stored document has fails with NotFound
\* and changes nothing; a delete that succeeds removes the document and
\* nothing else; an update keeps the _id; an insert takes an _id never given
\* before, so an id that was deleted never resolves again.
C23_CicloDeVida ==
    [][/\ (/\ res'.ruta = "servicio"
           /\ res'.op \in {"obtenerJuego", "actualizarJuego", "eliminarJuego",
                           "obtenerResenia", "actualizarResenia", "eliminarResenia"}
           /\ res'.id \notin IdsEn(Coleccion(res'.op, juegos, resenias)))
             => /\ res'.causa = "NotFound"
                /\ juegos' = juegos
                /\ resenias' = resenias
       /\ (/\ res'.ruta = "servicio"
           /\ res'.op \in {"eliminarJuego", "eliminarResenia"}
           /\ res'.id \in IdsEn(Coleccion(res'.op, juegos, resenias)))
             => /\ res'.causa = "ok"
                /\ Coleccion(res'.op, juegos', resenias')
                      = {d \in Coleccion(res'.op, juegos, resenias) : d._id # res'.id}
       /\ IdsEn(juegos') \ IdsEn(juegos) \subseteq {sigJuego}
       /\ IdsEn(resenias') \ IdsEn(resenias) \subseteq {sigResenia}
       /\ sigJuego' >= sigJuego /\ sigResenia' >= sigResenia
       /\ sigJuego \in IdsEn(juegos') => sigJuego' > sigJuego
       /\ sigResenia \in IdsEn(resenias') => sigResenia' > sigResenia
       /\ \A d \in juegos : d._id < sigJuego
       /\ \A d \in resenias : d._id < sigResenia]_vars

\* a read of the id of a deleted juego: NotFound
C23_Testigo ==
    /\ res.op = "obtenerJuego"
    /\ res.causa = "NotFound"
    /\ res.id < sigJuego
    /\ res.id \notin IdsEn(juegos)

-----------------------------------------------------------------------------
(* Claims about the field of the sort *)

\* the entries of a listing
Listado(r) == IF r.op = "listarJuegos" THEN r.body.juegos ELSE r.body.resenias

\* the fields a listing may be sorted on
Ordenables(op) ==
    IF op = "listarJuegos" THEN ordenamientoValido ELSE ordenamientoValido_resenias

\* C24: a listing of juegos (JuegoService.obtenerTodos, obtenerTodosLosJuegos
\* of the controller) or of resenias (ReseniaService.obtenerTodas) is sorted
\* only on a field of the list of sortable fields: a request that names no
\* field, or a field outside the list, is answered in the order of creation,
\* newest first (oldest first when it asks for ascending order).
C24_OrdenPermitido ==
    (/\ res.op \in {"listarJuegos", "listarResenias"}
     /\ res.ruta \in {"servicio", "controlador"}
     /\ res.causa = "ok"
     /\ res.cuerpo.ordenarPor \notin Ordenables(res.op))
       => \A i, k \in DOMAIN Listado(res) :
             i < k => IF res.cuerpo.orden = "asc"
                      THEN Listado(res)[i].id < Listado(res)[k].id
                      ELSE Listado(res)[i].id > Listado(res)[k].id

-----------------------------------------------------------------------------
(* Claims about the ranking by rating *)

\* the stored juegos that have a resenia
Calificados(J, R) == {j \in J : DelJuego(R, j._id) # {}}

\* n differs from the quotient s / d by half a unit at most
EsRedondeo(n, s, d) == 2 * d * n - 2 * s <= d /\ 2 * s - 2 * d * n <= d

\* C25: the ranking by rating asked for N juegos
\* (obtenerMejoresCalificados(N)) has at most N entries, one per stored juego
\* that has a resenia and no other entry (a juego without resenias and the
\* resenias of a deleted juego give none), as many as N allows; each entry
\* carries the number of resenias of its juego and the mean of their ratings
\* rounded to two decimals; the entries are in descending order of the mean
\* and, for equal means, of the number of resenias.
C25_MejoresCalificados ==
    (res.op = "obtenerMejoresCalificados")
       => LET L == res.body.mejores
              N == res.cuerpo.limite
          IN  /\ res.causa = "ok"
              /\ Len(L) = Menor(N, Cardinality(Calificados(juegos, resenias)))
              /\ \A i, k \in DOMAIN L : i # k => L[i]._id # L[k]._id
              /\ \A i \in DOMAIN L :
                    /\ \E j \in Calificados(juegos, resenias) : j._id = L[i]._id
                    /\ L[i].totalResenias = Cardinality(DelJuego(resenias, L[i]._id))
                    /\ L[i].promedioCalificacion.t = "number"
                    /\ EsRedondeo(L[i].promedioCalificacion.n,
                                  10 * SumaCalificaciones(DelJuego(resenias, L[i]._id)),
                                  Cardinality(DelJuego(resenias, L[i]._id)))
              /\ \A i, k \in DOMAIN L :
                    i < k => \/ L[i].promedioCalificacion.n > L[k].promedioCalificacion.n
                             \/ /\ L[i].promedioCalificacion.n = L[k].promedioCalificacion.n
                                /\ L[i].totalResenias >= L[k].totalResenias

\* C26: a create of a resenia (ReseniaService.crear) that runs while the
\* juego it refers to is deleted (JuegoService.eliminar): every resenia that
\* is inserted refers to a juego that is stored at the instant of the insert.
C26_NaceConJuego ==
    [][\A r \in resenias' \ resenias : BuscarJuego(juegos, r.juegoId) # {}]_vars


\* C28: an update that runs while its document is deleted ends with NotFound
\* or with the updated document: when the step that answers an Update Item or
\* an Update Review finds its document gone, the answer is a NotFound error;
\* a success never carries a null record; and no step of an update puts an
\* _id in the store that was not there before it.
C28_ActualizarYEliminar ==
    [][ /\ (/\ res' # res
            /\ res'.op = "actualizarJuego"
            /\ BuscarJuego(juegos, res'.id) = {})
           => (res'.causa = "NotFound" /\ res'.body.tipo # "null")
        /\ (/\ res' # res
            /\ res'.op = "actualizarResenia"
            /\ BuscarResenia(resenias, res'.id) = {})
           => (res'.causa = "NotFound" /\ res'.body.tipo # "null")
        /\ (\E p \in Cursos : enCurso[p].op \in {"actualizarJuego", "actualizarResenia"}
                              /\ enCurso'[p] # enCurso[p])
           => (IdsEn(juegos') \subseteq IdsEn(juegos)
               /\ IdsEn(resenias') \subseteq IdsEn(resenias)) ]_vars


\* C29: after a successful Update Item through the validated route, every
\* field the payload supplies has, in the stored juego, the value supplied:
\* also horasJugadas 0 and an empty imagen, resena, desarrollador or tienda.
C29_GuardaLoEnviado ==
    (res.op = "actualizarJuego" /\ res.status = 200)
       => \A j \in PorId(juegos, res.id) :
             \A k \in DOMAIN res.cuerpo.f : Get(j, k) = res.cuerpo.f[k]


\* the rows of a distribution
Filas(f) == {f[i] : i \in DOMAIN f}

\* C30: a read describes one state of the store, whatever is written while
\* it runs: in a dashboard the total of juegos of the summary is the sum of
\* the counts per genre and the sum of the counts per platform, and a first
\* page shorter than the page size comes with a total equal to its length.
C30_LecturaCoherente ==
    /\ (res.op = "obtenerDashboard" /\ res.causa = "ok")
          => /\ res.body.resumen.totalJuegos
                   = Suma(Filas(res.body.distribuciones.generos), "cantidad")
             /\ res.body.resumen.totalJuegos
                   = Suma(Filas(res.body.distribuciones.plataformas), "cantidad")
    /\ (/\ res.op = "listarJuegos" /\ res.causa = "ok"
        /\ res.body.consulta.skip = 0
        /\ Len(res.body.juegos) < res.body.consulta.limit)
          => res.body.totalJuegos = Len(res.body.juegos)

=============================================================================
